---- MODULE Spec2Model ----
(***************************************************************************)
(* NaturalGAIA_Generation: the schema-driven graph crawler                 *)
(* (src/src/builder.py, GraphBuilder) and the path sampler / constraint    *)
(* validator (src/src/generator.py, TaskGenerator).                        *)
(***************************************************************************)
EXTENDS Integers, Sequences, FiniteSets, TLC

VARIABLES
    \* ---- GraphBuilder (src/src/builder.py) ----
    world,              \* schema document + remote service the builder talks to
    seed_val,           \* GraphBuilder.seed_val
    max_workers,        \* GraphBuilder.max_workers
    max_nodes,          \* build_subgraph_parallel argument
    max_branch,         \* build_subgraph_parallel argument
    rng,                \* GraphBuilder.rng (state of the seeded generator)
    nodes,              \* G.nodes, in insertion order
    edges,              \* G.edges, in insertion order
    queue,              \* frontier
    visited_or_queued,
    running,            \* futures submitted and not finished
    completed,          \* futures finished and not yet joined
    original_id,        \* entity whose result is being merged
    neighbors,          \* rest of the shuffled neighbor list being merged
    count,              \* kept pairs of the entity being merged
    pc,                 \* position of the coordinating thread
    runs,               \* calls of build_subgraph_parallel so far
    last_graph,         \* graph returned by the previous call
    fetched,            \* per call: how often each entity was fetched
    \* ---- one _fetch_node_neighbors call on a pool thread, attempt by attempt
    fq_pc,              \* "idle", the direction being queried, "returned", "raised"
    fq_entity,          \* its entity_id
    fq_attempt,         \* attempts made of the query in progress
    fq_log,             \* per direction: attempts made, rows run_query went on with
    fq_valid,           \* valid_neighbors
    \* ---- TaskGenerator.generate_tasks (src/src/generator.py) ----
    gen,                \* the call: graph G, total_paths, min_len, max_len
    global_node_usage,  \* TaskGenerator.global_node_usage
    attempts,           \* the loop's attempt counter (dead after the loop)
    loop_exit,          \* how the sampling loop ended: "", "count" or "budget"
    tasks,              \* candidate tasks, each the sequence of its steps
    ctx_service,        \* the context service the validation talks to
    query_jobs,         \* context fetches not joined yet
    results_map,
    final_valid_tasks,
    v_idx,              \* candidate tasks validated so far
    g_pc,               \* position in generate_tasks
    returned,           \* what generate_tasks returned
    g_seed,             \* TaskGenerator.seed_val
    g_rng,              \* rng of generate_tasks (state of the seeded generator)
    g_runs,             \* runs of generate_tasks finished before this one
    last_tasks,         \* what the previous run returned
    \* ---- one call of a function of the two classes, for every argument ----
    fn_call,            \* the function called and its arguments
    fn_result,          \* what it returned, NoResult before it returns
    \* ---- GraphBuilder.save_graph / load_graph ----
    graph_file,         \* the JSON document of the graph file, NoGraphFile if absent
    loaded_graph,       \* what load_graph returned
    \* ---- LLMClient.paraphrase_tasks / LLMParaphraser.run_batch ----
    para_call,          \* the class called, the task file read, the LLM's answers
    para_tasks,         \* per task of the file: its refined_query
    para_running,       \* tasks submitted and not finished
    para_finished,      \* futures finished and not yet joined: [i, raised]
    para_results,       \* results, the tasks in the order they were joined
    para_out,           \* the output file
    para_pc             \* position of the calling thread

crawl_vars == <<world, seed_val, max_workers, max_nodes, max_branch, rng, nodes,
                edges, queue, visited_or_queued, running, completed,
                original_id, neighbors, count, pc, runs, last_graph, fetched>>

fetch_vars == <<fq_pc, fq_entity, fq_attempt, fq_log, fq_valid>>

gen_vars == <<gen, global_node_usage, attempts, loop_exit, tasks, ctx_service, query_jobs,
              results_map, final_valid_tasks, v_idx, g_pc, returned,
              g_seed, g_rng, g_runs, last_tasks>>

\* what a run of generate_tasks keeps from the runs before it
run_vars == <<g_seed, g_runs, last_tasks>>

call_vars == <<fn_call, fn_result>>

\* everything outside the crawl, the fetch and generate_tasks
file_vars == <<graph_file, loaded_graph>>

para_vars == <<para_call, para_tasks, para_running, para_finished,
               para_results, para_out, para_pc>>

aux_vars == <<call_vars, file_vars, para_vars>>

vars == <<crawl_vars, fetch_vars, gen_vars, aux_vars>>

-----------------------------------------------------------------------------
(* Bounds of the model *)
MaxNodesBound == 5      \* max_nodes ranges over 1..MaxNodesBound
MaxBranchBound == 3     \* max_branch ranges over 1..MaxBranchBound
MaxSeed == 5            \* seed_val ranges over 0..MaxSeed
MaxRuns == 2            \* calls of build_subgraph_parallel on one builder
MaxWorkers == 1         \* max_workers ranges over 1..MaxWorkers
MaxFails == 4           \* a query fails 0..MaxFails times before it answers
MaxTotalPaths == 1      \* total_paths ranges over 1..MaxTotalPaths
MaxLenBound == 3        \* min_len <= max_len range over 1..MaxLenBound
MaxGenRuns == 2         \* runs of generate_tasks that are compared
MaxSeconds == 125       \* a raw duration ranges over 0..MaxSeconds seconds
MaxPoolNodes == 7       \* the start pool is computed for 1..MaxPoolNodes nodes
MaxUsage == 1           \* usage counts range over 0..MaxUsage
MaxParaTasks == 2       \* a task file holds 1..MaxParaTasks tasks
MaxSeededPaths == 2     \* total_paths of the seeded runs: 1..MaxSeededPaths

None == "None"
NoRelation == <<>>      \* an action entry without "relation"
Entities == {"A", "B", "C", "D", "E"}
Directions == {"forward", "reverse"}

-----------------------------------------------------------------------------
(* Sequence helpers *)
Last(s) == s[Len(s)]
Front(s) == SubSeq(s, 1, Len(s) - 1)
Range(s) == {s[i] : i \in 1..Len(s)}
Min(a, b) == IF a < b THEN a ELSE b

RECURSIVE Concat(_)
Concat(ss) == IF ss = <<>> THEN <<>> ELSE Head(ss) \o Concat(Tail(ss))

RECURSIVE Uniq(_)
Uniq(s) ==
    IF s = <<>> THEN <<>>
    ELSE LET r == Uniq(Front(s))
         IN IF Last(s) \in Range(r) THEN r ELSE Append(r, Last(s))

Swap(s, i, j) == [s EXCEPT ![i] = s[j], ![j] = s[i]]

-----------------------------------------------------------------------------
(* random.Random(seed): a seeded deterministic generator.  The Mersenne     *)
(* twister is abstracted by a small linear congruential generator: the      *)
(* stream is a function of the seed and of the number of draws made.        *)
RngModulus == 17
RngSeed(seed) == seed % RngModulus
RngNext(s) == (5 * s + 3) % RngModulus
RandBelow(s, n) == (s \div 2) % n

\* random.shuffle: for i in reversed(range(1, len(x))): j = randbelow(i + 1);
\* x[i], x[j] = x[j], x[i]    (indices here are 1-based: position i+1)
RECURSIVE ShuffleFrom(_, _, _)
ShuffleFrom(s, x, i) ==
    IF i < 1 THEN [rng |-> s, list |-> x]
    ELSE LET s1 == RngNext(s)
             j == RandBelow(s1, i + 1)
         IN ShuffleFrom(s1, Swap(x, i + 1, j + 1), i - 1)

Shuffle(s, x) == ShuffleFrom(s, x, Len(x) - 1)

-----------------------------------------------------------------------------
(* The schema document: domains -> apps -> entities -> actions, flattened   *)
(* in iteration order to a sequence of entity entries                       *)
(*   [domain, app, ent, type_filter, actions]                               *)
(* with actions a sequence of [key, relation, target, desc].  A relation    *)
(* string is the sequence of its "_"-separated tokens; a missing field is   *)
(* None.                                                                    *)
Key(domain, app, ent) == <<domain, app, ent>>

\* builder.py 100-109: entities with a non-empty filter list only
EntityTypeMap(doc) ==
    [k \in {Key(doc[i].domain, doc[i].app, doc[i].ent) :
                i \in {j \in 1..Len(doc) : doc[j].type_filter # {}}} |->
        LET i == CHOOSE j \in 1..Len(doc) :
                    /\ Key(doc[j].domain, doc[j].app, doc[j].ent) = k
                    /\ doc[j].type_filter # {}
                    /\ \A l \in (j + 1)..Len(doc) :
                          ~(/\ Key(doc[l].domain, doc[l].app, doc[l].ent) = k
                            /\ doc[l].type_filter # {})
        IN doc[i].type_filter]

\* dict.get(key) / dict.get(key, set()): an absent key gives no root type
MapGet(m, k) == IF k \in DOMAIN m THEN m[k] ELSE {}

\* raw_rel.startswith("reverse_")
StartsWithReverse(rel) == Len(rel) >= 2 /\ rel[1] = "reverse"

\* raw_rel.replace("reverse_", ""): every token "reverse" that is followed
\* by a "_" disappears
RECURSIVE DropReverse(_)
DropReverse(rel) ==
    IF Len(rel) <= 1 THEN rel
    ELSE IF Head(rel) = "reverse" THEN DropReverse(Tail(rel))
    ELSE <<Head(rel)>> \o DropReverse(Tail(rel))

\* builder.py 125-131
RelationPid(rel) ==
    IF StartsWithReverse(rel) THEN <<DropReverse(rel)[1]>> ELSE rel

RelationDirection(rel) ==
    IF StartsWithReverse(rel) THEN "reverse" ELSE "forward"

\* (mutant) a malformed action ends the parsing of its entity
RECURSIVE EntityActionsStopAtMalformed(_, _, _)
EntityActionsStopAtMalformed(doc, e, as) ==
    IF as = <<>> THEN <<>>
    ELSE LET a == Head(as)
         IN IF a.relation = NoRelation \/ a.target = None THEN <<>>
            ELSE <<[pid |-> RelationPid(a.relation),
                    domain |-> e.domain,
                    app |-> e.app,
                    source_entity_type |-> e.ent,
                    target_entity_type |-> a.target,
                    action_key |-> a.key,
                    action_desc |-> a.desc,
                    direction |-> RelationDirection(a.relation),
                    allowed_root_types |->
                        MapGet(EntityTypeMap(doc),
                               Key(e.domain, e.app, a.target))]>>
                 \o EntityActionsStopAtMalformed(doc, e, Tail(as))

\* builder.py 119-153: the actions of one entity entry, malformed ones skipped
RECURSIVE EntityActions(_, _, _)
EntityActions(doc, e, as) ==
    IF as = <<>> THEN <<>>
    ELSE LET a == Head(as)
             rest == EntityActions(doc, e, Tail(as))
         IN IF a.relation = NoRelation \/ a.target = None THEN rest
            ELSE <<[pid |-> RelationPid(a.relation),
                    domain |-> e.domain,
                    app |-> e.app,
                    source_entity_type |-> e.ent,
                    target_entity_type |-> a.target,
                    action_key |-> a.key,
                    action_desc |-> a.desc,
                    direction |-> RelationDirection(a.relation),
                    allowed_root_types |->
                        MapGet(EntityTypeMap(doc),
                               Key(e.domain, e.app, a.target))]>> \o rest

\* builder.py 95-154: all actions in document order; prop_to_actions[p] is
\* the subsequence with pid = p
ParseSchemaToActions(doc) ==
    Concat([i \in 1..Len(doc) |-> EntityActions(doc, doc[i], doc[i].actions)])

PropToActions(doc, p) ==
    SelectSeq(ParseSchemaToActions(doc), LAMBDA a : a.pid = p)

-----------------------------------------------------------------------------
(* The remote query service.  world.rows[e][d] is the sequence of result    *)
(* rows [p, n, lbl, my, nt] of the neighbor query of entity e in direction  *)
(* d; world.fails[e][d] is the number of attempts of that query the service *)
(* fails before it answers.                                                 *)

\* builder.py 157: stop_after_attempt(3)
StopAfterAttempt == 3

\* builder.py 156-168: attempt number k of a query that fails `f` times
AttemptFails(k, f) == k <= f

\* (mutant) the stop one attempt early
GiveUpEarly(k) == k >= StopAfterAttempt - 1

\* (mutant) the stop one attempt late
GiveUpLate(k) == k >= StopAfterAttempt + 1

\* tenacity: after a failed attempt, give up (RetryError, reraise=False)
\* once the attempt number reaches the stop
GiveUp(k) == k >= StopAfterAttempt

\* builder.py 156-168: outcome of _execute_sparql_query from attempt k on
RECURSIVE ExecuteSparqlQuery(_, _, _)
ExecuteSparqlQuery(rows, f, k) ==
    IF AttemptFails(k, f)
    THEN IF GiveUp(k) THEN [raised |-> TRUE, res |-> <<>>, attempts |-> k]
         ELSE ExecuteSparqlQuery(rows, f, k + 1)
    ELSE [raised |-> FALSE, res |-> rows, attempts |-> k]

\* builder.py 213-219: try / except Exception: return []; if not res: return []
CaughtRows(out) == IF out.raised THEN <<>> ELSE out.res

\* (mutant) the entity's own root type is not looked at
SourceTypeIgnored(doc, action, my_root) == TRUE

\* builder.py 257-267: checks B and C on one (match, action)
SourceTypeOk(doc, action, my_root) ==
    my_root \in MapGet(EntityTypeMap(doc),
                       Key(action.domain, action.app, action.source_entity_type))

\* (mutant) the neighbor's root type is not looked at
TargetTypeIgnored(action, n_root) == TRUE

TargetTypeOk(action, n_root) ==
    action.allowed_root_types = {} \/ n_root \in action.allowed_root_types

\* builder.py 254: check A
DirectionOk(action, direction) == action.direction = direction

Uid(a) == <<a.app, a.action_key>>

\* builder.py 271-279: seen_actions keeps the first pair of every uid
RECURSIVE UniqUid(_)
UniqUid(s) ==
    IF s = <<>> THEN <<>>
    ELSE LET r == UniqUid(Front(s))
         IN IF \E i \in 1..Len(r) :
                    Uid(r[i].action_metadata) = Uid(Last(s).action_metadata)
            THEN r ELSE Append(r, Last(s))

\* builder.py 244-268: the pairs one match (row) of neighbor n yields
MatchPairs(doc, direction, r) ==
    LET acts == PropToActions(doc, r.p)
        ok(a) == /\ DirectionOk(a, direction)
                 /\ SourceTypeOk(doc, a, r.my)
                 /\ TargetTypeOk(a, r.nt)
        kept == SelectSeq(acts, ok)
    IN [i \in 1..Len(kept) |->
            [neighbor_id |-> r.n, neighbor_label |-> r.lbl,
             action_metadata |-> kept[i]]]

\* builder.py 222-236: temp_nodes[n] = label of n's first row, and n's rows
FirstLabel(rows, n) ==
    rows[CHOOSE i \in 1..Len(rows) :
            rows[i].n = n /\ \A j \in 1..(i - 1) : rows[j].n # n].lbl

\* builder.py 238-280: local_results
LocalResults(doc, direction, rows) ==
    LET ns == Uniq([i \in 1..Len(rows) |-> rows[i].n])
        ofN(n) ==
            LET ms == SelectSeq(rows, LAMBDA r : r.n = n)
                ps == UniqUid(Concat([i \in 1..Len(ms) |->
                                        MatchPairs(doc, direction, ms[i])]))
            IN [i \in 1..Len(ps) |->
                    [ps[i] EXCEPT !.neighbor_label = FirstLabel(rows, n)]]
    IN Concat([i \in 1..Len(ns) |-> ofN(ns[i])])

\* builder.py 173-280: run_query(direction) of _fetch_node_neighbors
\* (mutant) a query that ran out of retries leaves the shared client broken:
\* the queries of every entity come back empty
RunQueryFailureShared(w, entity_id, direction) ==
    IF \E e \in Entities, d \in Directions :
          ExecuteSparqlQuery(w.rows[e][d], w.fails[e][d], 1).raised
    THEN <<>>
    ELSE LocalResults(w.schema, direction, w.rows[entity_id][direction])

RunQuery(w, entity_id, direction) ==
    LocalResults(w.schema, direction,
                 CaughtRows(ExecuteSparqlQuery(w.rows[entity_id][direction],
                                               w.fails[entity_id][direction],
                                               1)))

\* builder.py 170-284: valid_neighbors
FetchNodeNeighbors(w, entity_id) ==
    RunQuery(w, entity_id, "forward") \o RunQuery(w, entity_id, "reverse")

-----------------------------------------------------------------------------
(* Schema documents and services the builder is run against *)

Act(key, relation, target) ==
    [key |-> key, relation |-> relation, target |-> target, desc |-> key]

Ent(domain, app, ent, filter, actions) ==
    [domain |-> domain, app |-> app, ent |-> ent, type_filter |-> filter,
     actions |-> actions]

\* one relation, P26, mapped in both directions
SchemaP26 ==
    << Ent("Social", "Wiki", "Person", {"Q5"},
           << Act("click_spouse", <<"P26">>, "Person"),
              Act("check_spouse_of", <<"reverse", "P26">>, "Person") >>) >>

\* two apps on the same relation, an action without `target`, an action
\* without `relation`, a target type declared later in the document, a
\* target type and a source type without type filter
SchemaRich ==
    << Ent("Social", "Wiki", "Person", {"Q5"},
           << Act("click_spouse", <<"P26">>, "Person"),
              Act("broken_a", NoRelation, "Person"),
              Act("search_works", <<"reverse", "P50", "author">>, "Book"),
              Act("broken_b", <<"P26">>, None) >>),
       Ent("Social", "Wiki", "Book", {"Q571"},
           << Act("click_author", <<"P50">>, "Person") >>),
       Ent("Retail", "Store", "Person", {"Q5"},
           << Act("search_spouse", <<"P26">>, "Person"),
              Act("find_related", <<"P26">>, "Thing") >>),
       Ent("Retail", "Store", "Thing", {},
           << Act("open_owner", <<"P26">>, "Person") >>) >>

LabelOf ==
    [e \in Entities |->
        CASE e = "A" -> "Alice" [] e = "B" -> "Bob" [] e = "C" -> "Carol"
          [] e = "D" -> "Dave" [] OTHER -> "Erin"]

Row(p, n, my, nt) ==
    [p |-> <<p>>, n |-> n, lbl |-> LabelOf[n], my |-> my, nt |-> nt]
H(n) == Row("P26", n, "Q5", "Q5")

NoRows == [e \in Entities |-> [d \in Directions |-> <<>>]]
NoFails == [e \in Entities |-> [d \in Directions |-> 0]]

\* the seed has one forward and one reverse neighbor
WorldScenario ==
    [schema |-> SchemaP26, start |-> "A", fails |-> NoFails,
     rows |-> [NoRows EXCEPT !["A"] = [forward |-> <<H("B")>>,
                                       reverse |-> <<H("C")>>]]]

\* a batch of two entities that discover different new entities and the
\* same known ones
WorldBranch ==
    [schema |-> SchemaP26, start |-> "A", fails |-> NoFails,
     rows |-> [NoRows EXCEPT
                 !["A"] = [forward |-> <<H("B"), H("C")>>, reverse |-> <<>>],
                 !["B"] = [forward |-> <<H("D"), H("E")>>, reverse |-> <<H("A")>>],
                 !["C"] = [forward |-> <<H("E"), H("B")>>, reverse |-> <<>>],
                 !["D"] = [forward |-> <<H("A")>>, reverse |-> <<H("E")>>]]]

\* parallel edges, type filters, rows repeated per observed type, a row of
\* the entity itself
WorldRich ==
    [schema |-> SchemaRich, start |-> "A", fails |-> NoFails,
     rows |-> [NoRows EXCEPT
                 !["A"] = [forward |-> <<H("B"), Row("P26", "B", "Q5", "Q571"),
                                         Row("P26", "A", "Q5", "Q5")>>,
                           reverse |-> <<Row("P50", "C", "Q5", "Q571"),
                                         Row("P50", "D", "Q5", "Q5")>>],
                 !["B"] = [forward |-> <<Row("P26", "D", "Q571", "Q5")>>,
                           reverse |-> <<>>],
                 !["C"] = [forward |-> <<Row("P50", "A", "Q571", "Q5"),
                                         Row("P50", "D", "Q571", "Q5")>>,
                           reverse |-> <<>>]]]

\* queries that fail: twice (the third attempt answers), three times and more
WorldFail ==
    [schema |-> SchemaP26, start |-> "A",
     fails |-> [NoFails EXCEPT !["A"] = [forward |-> 2, reverse |-> 3],
                               !["B"] = [forward |-> 4, reverse |-> 1],
                               !["C"] = [forward |-> 3, reverse |-> 3]],
     rows |-> [NoRows EXCEPT
                 !["A"] = [forward |-> <<H("B"), H("C")>>, reverse |-> <<H("D")>>],
                 !["B"] = [forward |-> <<H("D")>>, reverse |-> <<H("E")>>],
                 !["C"] = [forward |-> <<H("D")>>, reverse |-> <<H("E")>>]]]

\* one entity of the second batch runs out of retries in both directions
WorldOneFails ==
    [schema |-> SchemaP26, start |-> "A",
     fails |-> [NoFails EXCEPT !["C"] = [forward |-> 3, reverse |-> 4]],
     rows |-> [NoRows EXCEPT
                 !["A"] = [forward |-> <<H("B"), H("C")>>, reverse |-> <<>>],
                 !["B"] = [forward |-> <<H("D")>>, reverse |-> <<H("A")>>],
                 !["C"] = [forward |-> <<H("D")>>, reverse |-> <<H("E")>>]]]

\* the seed has more neighbors than a batch holds
WorldWide ==
    [schema |-> SchemaP26, start |-> "A", fails |-> NoFails,
     rows |-> [NoRows EXCEPT
                 !["A"] = [forward |-> <<H("B"), H("C"), H("D")>>,
                           reverse |-> <<>>],
                 !["C"] = [forward |-> <<H("E")>>, reverse |-> <<>>],
                 !["D"] = [forward |-> <<H("B")>>, reverse |-> <<>>]]]

Worlds ==
    {WorldScenario, WorldBranch, WorldRich, WorldFail, WorldOneFails,
     WorldWide}

-----------------------------------------------------------------------------
(* build_subgraph_parallel: the graph (a networkx MultiDiGraph)             *)

NoAttr == "NoAttr"      \* an attribute the node does not have

HasNode(ns, id) == \E i \in 1..Len(ns) : ns[i].id = id

\* G.add_node(id, label=...)
AddNode(ns, id, label, type) ==
    IF HasNode(ns, id)
    THEN [i \in 1..Len(ns) |->
            IF ns[i].id = id THEN [ns[i] EXCEPT !.label = label] ELSE ns[i]]
    ELSE Append(ns, [id |-> id, label |-> label, type |-> type])

\* networkx add_edge creates an endpoint that is not a node yet, without
\* attributes
ImplicitNode(ns, id) ==
    IF HasNode(ns, id) THEN ns
    ELSE Append(ns, [id |-> id, label |-> NoAttr, type |-> NoAttr])

\* (mutant) a pair found by the reverse lookup is stored neighbor -> entity
AddEdgeReverseFlipped(g, u, v, meta) ==
    LET a == IF meta.direction = "reverse" THEN v ELSE u
        b == IF meta.direction = "reverse" THEN u ELSE v
    IN [nodes |-> ImplicitNode(ImplicitNode(g.nodes, a), b),
        edges |-> Append(g.edges,
                         [src |-> a, dst |-> b,
                          app |-> meta.app,
                          domain |-> meta.domain,
                          action_key |-> meta.action_key,
                          action_desc |-> meta.action_desc,
                          source_type |-> meta.source_entity_type,
                          target_type |-> meta.target_entity_type])]

\* builder.py 338-347: G.add_edge(original_id, target_id, app=..., ...)
AddEdge(g, u, v, meta) ==
    [nodes |-> ImplicitNode(ImplicitNode(g.nodes, u), v),
     edges |-> Append(g.edges,
                      [src |-> u, dst |-> v,
                       app |-> meta.app,
                       domain |-> meta.domain,
                       action_key |-> meta.action_key,
                       action_desc |-> meta.action_desc,
                       source_type |-> meta.source_entity_type,
                       target_type |-> meta.target_entity_type])]

\* (mutant) the budget test off by one
NodeBudgetReachedOffByOne(ns, mx) == Len(ns) > mx

\* builder.py 329: the node budget is used up
NodeBudgetReached(ns, mx) == Len(ns) >= mx

\* builder.py 337
EdgeGuard(ns, vis, target_id) == HasNode(ns, target_id) \/ target_id \in vis

\* (mutant) the neighbor is marked before the budget is tested, and a used-up
\* budget skips the node instead of leaving the loop
NodeLogicMarkFirst(st, n, mx) ==
    IF n.neighbor_id \notin st.visited
    THEN IF NodeBudgetReached(st.nodes, mx)
         THEN [st EXCEPT !.visited = @ \cup {n.neighbor_id}]
         ELSE [st EXCEPT
                 !.visited = @ \cup {n.neighbor_id},
                 !.queue = Append(@, n.neighbor_id),
                 !.nodes = AddNode(@, n.neighbor_id, n.neighbor_label, NoAttr)]
    ELSE st

\* (mutant) the neighbor is looked up in the frontier, not in
\* visited_or_queued
NodeLogicRequeue(st, n, mx) ==
    IF n.neighbor_id \notin Range(st.queue)
    THEN IF NodeBudgetReached(st.nodes, mx)
         THEN [st EXCEPT !.brk = TRUE]
         ELSE [st EXCEPT
                 !.visited = @ \cup {n.neighbor_id},
                 !.queue = Append(@, n.neighbor_id),
                 !.nodes = AddNode(@, n.neighbor_id, n.neighbor_label, NoAttr)]
    ELSE st

\* builder.py 328-334: the node logic for one kept pair n.  st is
\* [nodes, edges, queue, visited, brk]; brk is set by the `break`
NodeLogic(st, n, mx) ==
    IF n.neighbor_id \notin st.visited
    THEN IF NodeBudgetReached(st.nodes, mx)
         THEN [st EXCEPT !.brk = TRUE]
         ELSE [st EXCEPT
                 !.visited = @ \cup {n.neighbor_id},
                 !.queue = Append(@, n.neighbor_id),
                 !.nodes = AddNode(@, n.neighbor_id, n.neighbor_label, NoAttr)]
    ELSE st

\* (mutant) no second edge between a pair of nodes
EdgeLogicOnce(st, oid, n) ==
    IF /\ EdgeGuard(st.nodes, st.visited, n.neighbor_id)
       /\ \A i \in 1..Len(st.edges) :
             ~(st.edges[i].src = oid /\ st.edges[i].dst = n.neighbor_id)
    THEN LET g == AddEdge([nodes |-> st.nodes, edges |-> st.edges],
                          oid, n.neighbor_id, n.action_metadata)
         IN [st EXCEPT !.nodes = g.nodes, !.edges = g.edges]
    ELSE st

\* builder.py 336-347: the edge logic for one kept pair n
EdgeLogic(st, oid, n) ==
    IF EdgeGuard(st.nodes, st.visited, n.neighbor_id)
    THEN LET g == AddEdge([nodes |-> st.nodes, edges |-> st.edges],
                          oid, n.neighbor_id, n.action_metadata)
         IN [st EXCEPT !.nodes = g.nodes, !.edges = g.edges]
    ELSE st

\* (mutant) an edge is added only to a neighbor that was known before
MergeNeighborKnownOnly(st, oid, n, mx) ==
    LET s1 == NodeLogic(st, n, mx)
    IN IF s1.brk \/ n.neighbor_id \notin st.visited THEN s1
       ELSE EdgeLogic(s1, oid, n)

\* builder.py 324-348: one iteration of `for n in neighbors`
MergeNeighbor(st, oid, n, mx) ==
    LET s1 == NodeLogic(st, n, mx)
    IN IF s1.brk THEN s1 ELSE EdgeLogic(s1, oid, n)

\* (mutant) one entity per worker
BatchSizeOnePerWorker(workers) == workers

\* builder.py 302-304: the batch popped from the front of the frontier
BatchSize(workers) == workers * 2

-----------------------------------------------------------------------------
(* build_subgraph_parallel: the coordinating thread and the fetch workers   *)

CrawlInit ==
    /\ world \in Worlds
    /\ seed_val \in 0..MaxSeed
    /\ max_workers \in 1..MaxWorkers
    /\ max_nodes \in 1..MaxNodesBound
    /\ max_branch \in 1..MaxBranchBound
    /\ rng = RngSeed(seed_val)            \* builder.py 30
    /\ nodes = <<>>
    /\ edges = <<>>
    /\ queue = <<>>
    /\ visited_or_queued = {}
    /\ running = {}
    /\ completed = {}
    /\ original_id = None
    /\ neighbors = <<>>
    /\ count = 0
    /\ pc = "idle"
    /\ runs = 0
    /\ last_graph = [nodes |-> <<>>, edges |-> <<>>]
    /\ fetched = [e \in Entities |-> 0]

params == <<world, seed_val, max_workers, max_nodes, max_branch>>

\* builder.py 286-297: a call of build_subgraph_parallel(world.start, ...)
Build ==
    /\ pc \in {"idle", "returned"}
    /\ runs < MaxRuns
    /\ runs' = runs + 1
    /\ last_graph' = [nodes |-> nodes, edges |-> edges]
    /\ rng' = RngSeed(seed_val)
    /\ nodes' = AddNode(<<>>, world.start, "StartNode", "Generic")
    /\ edges' = <<>>
    /\ queue' = <<world.start>>
    /\ visited_or_queued' = {world.start}
    /\ running' = {}
    /\ completed' = {}
    /\ original_id' = None
    /\ neighbors' = <<>>
    /\ count' = 0
    /\ fetched' = [e \in Entities |-> 0]
    /\ pc' = "loop"
    /\ UNCHANGED params
    /\ UNCHANGED <<fetch_vars, gen_vars, aux_vars>>

\* builder.py 300-311: the loop test holds; pop a batch, submit its fetches
PopBatch ==
    /\ pc = "loop"
    /\ Len(nodes) < max_nodes /\ queue # <<>>
    /\ LET k == Min(BatchSize(max_workers), Len(queue))
           current_batch == SubSeq(queue, 1, k)
       IN /\ queue' = SubSeq(queue, k + 1, Len(queue))
          /\ running' = Range(current_batch)
          /\ fetched' = [e \in Entities |->
                            fetched[e] + Cardinality({i \in 1..k :
                                                        current_batch[i] = e})]
    /\ completed' = {}
    /\ pc' = "join"
    /\ UNCHANGED <<params, rng, nodes, edges, visited_or_queued, original_id,
                   neighbors, count, runs, last_graph>>
    /\ UNCHANGED <<fetch_vars, gen_vars, aux_vars>>

\* builder.py 300, 349-350: the loop test fails; return G
ReturnGraph ==
    /\ pc = "loop"
    /\ ~(Len(nodes) < max_nodes /\ queue # <<>>)
    /\ pc' = "returned"
    /\ UNCHANGED <<params, rng, nodes, edges, queue, visited_or_queued, running,
                   completed, original_id, neighbors, count, runs, last_graph,
                   fetched>>
    /\ UNCHANGED <<fetch_vars, gen_vars, aux_vars>>

\* (mutant) the worker shuffles its own result with the builder's generator
FetchDoneShuffles(e) ==
    /\ e \in running
    /\ running' = running \ {e}
    /\ completed' = completed \cup {e}
    /\ rng' = Shuffle(rng, FetchNodeNeighbors(world, e)).rng
    /\ UNCHANGED <<params, nodes, edges, queue, visited_or_queued,
                   original_id, neighbors, count, pc, runs, last_graph, fetched>>
    /\ UNCHANGED <<fetch_vars, gen_vars, aux_vars>>

\* builder.py 170-284 on a pool thread: the fetch of entity e finishes
FetchDone(e) ==
    /\ e \in running
    /\ running' = running \ {e}
    /\ completed' = completed \cup {e}
    /\ UNCHANGED <<params, rng, nodes, edges, queue, visited_or_queued,
                   original_id, neighbors, count, pc, runs, last_graph, fetched>>
    /\ UNCHANGED <<fetch_vars, gen_vars, aux_vars>>

\* builder.py 313-319: as_completed yields a finished future; join it,
\* shuffle its neighbors
JoinResult(e) ==
    /\ pc = "join"
    /\ e \in completed
    /\ completed' = completed \ {e}
    /\ LET found == FetchNodeNeighbors(world, e)
       IN IF found = <<>>
          THEN UNCHANGED <<rng, original_id, neighbors, count, pc>>
          ELSE LET sh == Shuffle(rng, found)
               IN /\ rng' = sh.rng
                  /\ neighbors' = sh.list
                  /\ original_id' = e
                  /\ count' = 0
                  /\ pc' = "merge"
    /\ UNCHANGED <<params, nodes, edges, queue, visited_or_queued, running,
                   runs, last_graph, fetched>>
    /\ UNCHANGED <<fetch_vars, gen_vars, aux_vars>>

\* (mutant) the branch cap lets one pair more through
MergeStepOneMore ==
    /\ pc = "merge"
    /\ neighbors # <<>> /\ count <= max_branch
    /\ LET st == MergeNeighbor([nodes |-> nodes, edges |-> edges,
                                queue |-> queue, visited |-> visited_or_queued,
                                brk |-> FALSE],
                               original_id, Head(neighbors), max_nodes)
       IN /\ nodes' = st.nodes
          /\ edges' = st.edges
          /\ queue' = st.queue
          /\ visited_or_queued' = st.visited
          /\ IF st.brk
             THEN /\ neighbors' = <<>>
                  /\ original_id' = None
                  /\ pc' = "join"
                  /\ UNCHANGED count
             ELSE /\ neighbors' = Tail(neighbors)
                  /\ count' = count + 1
                  /\ UNCHANGED <<original_id, pc>>
    /\ UNCHANGED <<params, rng, running, completed, runs, last_graph, fetched>>
    /\ UNCHANGED <<fetch_vars, gen_vars, aux_vars>>

\* builder.py 320-348: one iteration of the loop over the joined neighbors
MergeStep ==
    /\ pc = "merge"
    /\ neighbors # <<>> /\ count < max_branch
    /\ LET st == MergeNeighbor([nodes |-> nodes, edges |-> edges,
                                queue |-> queue, visited |-> visited_or_queued,
                                brk |-> FALSE],
                               original_id, Head(neighbors), max_nodes)
       IN /\ nodes' = st.nodes
          /\ edges' = st.edges
          /\ queue' = st.queue
          /\ visited_or_queued' = st.visited
          /\ IF st.brk
             THEN /\ neighbors' = <<>>
                  /\ original_id' = None
                  /\ pc' = "join"
                  /\ UNCHANGED count
             ELSE /\ neighbors' = Tail(neighbors)
                  /\ count' = count + 1
                  /\ UNCHANGED <<original_id, pc>>
    /\ UNCHANGED <<params, rng, running, completed, runs, last_graph, fetched>>
    /\ UNCHANGED <<fetch_vars, gen_vars, aux_vars>>

\* builder.py 320-322: the list is used up or max_branch pairs were kept
MergeEnd ==
    /\ pc = "merge"
    /\ neighbors = <<>> \/ count >= max_branch
    /\ neighbors' = <<>>
    /\ original_id' = None
    /\ pc' = "join"
    /\ UNCHANGED <<params, rng, nodes, edges, queue, visited_or_queued, running,
                   completed, count, runs, last_graph, fetched>>
    /\ UNCHANGED <<fetch_vars, gen_vars, aux_vars>>

\* builder.py 313: as_completed is exhausted; back to the loop test
BatchJoined ==
    /\ pc = "join"
    /\ running = {} /\ completed = {}
    /\ pc' = "loop"
    /\ UNCHANGED <<params, rng, nodes, edges, queue, visited_or_queued, running,
                   completed, original_id, neighbors, count, runs, last_graph,
                   fetched>>
    /\ UNCHANGED <<fetch_vars, gen_vars, aux_vars>>

CrawlNext ==
    \/ Build
    \/ PopBatch
    \/ ReturnGraph
    \/ \E e \in Entities : FetchDone(e)
    \/ \E e \in Entities : JoinResult(e)
    \/ MergeStep
    \/ MergeEnd
    \/ BatchJoined

-----------------------------------------------------------------------------
(* _fetch_node_neighbors(entity_id), one query attempt per step *)

NoLog == [d \in Directions |-> [done |-> FALSE, attempts |-> 0, res |-> <<>>]]

FetchIdle ==
    /\ fq_pc = "idle"
    /\ fq_entity = None
    /\ fq_attempt = 0
    /\ fq_log = NoLog
    /\ fq_valid = <<>>

\* builder.py 215: `except Exception` catches what _execute_sparql_query
\* raises after its last attempt (tenacity.RetryError)
ExceptCatches(exc) == exc \in {"RetryError", "URLError", "RemoteDisconnected", "Exception"}

\* builder.py 282-283: forward first, then reverse
NextDirection(d) == IF d = "forward" THEN "reverse" ELSE "returned"

\* builder.py 170-171, 282: the call starts with run_query("forward")
FetchCall(e) ==
    /\ fq_pc = "idle"
    /\ fq_entity = None
    /\ fq_entity' = e
    /\ fq_pc' = "forward"
    /\ fq_attempt' = 0
    /\ UNCHANGED <<fq_log, fq_valid>>
    /\ UNCHANGED <<crawl_vars, gen_vars, aux_vars>>

\* builder.py 156-168, 213-216: an attempt fails; tenacity waits and retries
\* or gives up, and run_query turns the exception into []
AttemptFailed ==
    /\ fq_pc \in Directions
    /\ AttemptFails(fq_attempt + 1, world.fails[fq_entity][fq_pc])
    /\ IF GiveUp(fq_attempt + 1)
       THEN /\ fq_log' = [fq_log EXCEPT ![fq_pc] =
                            [done |-> TRUE, attempts |-> fq_attempt + 1,
                             res |-> <<>>]]
            /\ fq_pc' = IF ExceptCatches("RetryError")
                        THEN NextDirection(fq_pc) ELSE "raised"
            /\ fq_attempt' = 0
       ELSE /\ fq_attempt' = fq_attempt + 1
            /\ UNCHANGED <<fq_pc, fq_log>>
    /\ UNCHANGED <<fq_entity, fq_valid>>
    /\ UNCHANGED <<crawl_vars, gen_vars, aux_vars>>

\* builder.py 168, 214, 218-280: an attempt answers; its rows are filtered
AttemptAnswered ==
    /\ fq_pc \in Directions
    /\ ~AttemptFails(fq_attempt + 1, world.fails[fq_entity][fq_pc])
    /\ LET res == world.rows[fq_entity][fq_pc]
       IN /\ fq_log' = [fq_log EXCEPT ![fq_pc] =
                          [done |-> TRUE, attempts |-> fq_attempt + 1,
                           res |-> res]]
          /\ fq_valid' = fq_valid \o LocalResults(world.schema, fq_pc, res)
    /\ fq_pc' = NextDirection(fq_pc)
    /\ fq_attempt' = 0
    /\ UNCHANGED fq_entity
    /\ UNCHANGED <<crawl_vars, gen_vars, aux_vars>>

FetchNext ==
    \/ \E e \in Entities : FetchCall(e)
    \/ AttemptFailed
    \/ AttemptAnswered

-----------------------------------------------------------------------------
(* TaskGenerator: labels, steps, the random walk (generator.py 168-265)     *)

\* generator.py 29-38: blacklisted_terms, each the sequence of its characters
BlacklistedTerms ==
    { <<"l", "i", "s", "t", " ", "o", "f">>,
      <<"d", "i", "s", "c", "o", "g", "r", "a", "p", "h", "y">>,
      <<"f", "i", "l", "m", "o", "g", "r", "a", "p", "h", "y">>,
      <<"b", "i", "b", "l", "i", "o", "g", "r", "a", "p", "h", "y">>,
      <<"c", "a", "t", "e", "g", "o", "r", "y", ":">>,
      <<"t", "e", "m", "p", "l", "a", "t", "e", ":">>,
      <<"c", "h", "r", "o", "n", "o", "l", "o", "g", "i", "c", "a", "l">>,
      <<"a", "p", "p", "e", "a", "r", "a", "n", "c", "e", "s">> }

\* the characters of a label
Chars(label) ==
    CASE label = "Alice" ->
          <<"A", "l", "i", "c", "e">>
      [] label = "Bob" ->
          <<"B", "o", "b">>
      [] label = "Carol" ->
          <<"C", "a", "r", "o", "l">>
      [] label = "Dave" ->
          <<"D", "a", "v", "e">>
      [] label = "Erin" ->
          <<"E", "r", "i", "n">>
      [] label = "StartNode" ->
          <<"S", "t", "a", "r", "t", "N", "o", "d", "e">>
      [] label = "List of songs" ->
          <<"L", "i", "s", "t", " ", "o", "f", " ", "s", "o", "n", "g", "s">>
      [] label = "Bob discography" ->
          <<"B", "o", "b", " ", "d", "i", "s", "c", "o", "g", "r", "a", "p", "h", "y">>
      [] label = "Category:People" ->
          <<"C", "a", "t", "e", "g", "o", "r", "y", ":", "P", "e", "o", "p", "l", "e">>
      [] label = "A" ->
          <<"A">>
      [] label = "B" ->
          <<"B">>
      [] label = "C" ->
          <<"C">>
      [] label = "D" ->
          <<"D">>
      [] label = "E" ->
          <<"E">>
      [] label = "" -> <<>>

UpperCaseLetters ==
    <<"A", "B", "C", "D", "E", "F", "G", "H", "I", "J", "K", "L", "M",
      "N", "O", "P", "Q", "R", "S", "T", "U", "V", "W", "X", "Y", "Z">>

LowerCaseLetters ==
    <<"a", "b", "c", "d", "e", "f", "g", "h", "i", "j", "k", "l", "m",
      "n", "o", "p", "q", "r", "s", "t", "u", "v", "w", "x", "y", "z">>

\* generator.py 53: label.lower()
Lower(text) ==
    [i \in 1..Len(text) |->
        IF \E k \in 1..Len(UpperCaseLetters) : UpperCaseLetters[k] = text[i]
        THEN LowerCaseLetters[CHOOSE k \in 1..Len(UpperCaseLetters) :
                                 UpperCaseLetters[k] = text[i]]
        ELSE text[i]]

\* generator.py 55: term in label_lower
Contains(text, term) ==
    \E i \in 1..(Len(text) - Len(term) + 1) :
       SubSeq(text, i, i + Len(term) - 1) = term

\* (mutant) the terms are looked for in the label as it is written
IsValidNodeLabelCaseSensitive(label) ==
    /\ label # ""
    /\ \A term \in BlacklistedTerms : ~Contains(Chars(label), term)

\* generator.py 50-57
IsValidNodeLabel(label) ==
    /\ label # ""
    /\ \A term \in BlacklistedTerms : ~Contains(Lower(Chars(label)), term)

GNodeIds(G) == [i \in 1..Len(G.nodes) |-> G.nodes[i].id]

\* G.nodes[n].get("label", n)
GLabel(G, n) ==
    LET i == CHOOSE j \in 1..Len(G.nodes) : G.nodes[j].id = n
    IN IF G.nodes[i].label = NoAttr THEN n ELSE G.nodes[i].label

\* generator.py 203: G.successors(curr)
Successors(G, curr) ==
    {G.edges[i].dst : i \in {j \in 1..Len(G.edges) : G.edges[j].src = curr}}

\* generator.py 217-220: the keys of the parallel edges curr -> n
EdgeKeys(G, curr, n) ==
    {i \in 1..Len(G.edges) : G.edges[i].src = curr /\ G.edges[i].dst = n}

NoContext == <<>>

\* generator.py 238: "description": ""
NoDescription == [app |-> "", start |-> "", cons |-> <<>>]

\* generator.py 226-240
MakeStep(G, steps, curr, n, edge) ==
    [step_idx |-> Len(steps) + 1,
     from_id |-> curr,
     to_id |-> n,
     from |-> GLabel(G, curr),
     to |-> GLabel(G, n),
     app |-> edge.app,
     action |-> edge.action_key,
     target_type |-> edge.target_type,
     context |-> NoContext,
     description |-> NoDescription]

\* (mutant) only the current node is excluded, not the whole path
ValidNeighborsNoPath(G, curr, local_visited) == Successors(G, curr) \ {curr}

\* generator.py 204
ValidNeighbors(G, curr, local_visited) == Successors(G, curr) \ local_visited

\* generator.py 202-245: every outcome of the walk loop for the draws the
\* generator can make: [valid_walk, steps]
RECURSIVE Walks(_, _, _, _, _)
Walks(G, curr, local_visited, steps, left) ==
    IF left = 0 THEN {[valid_walk |-> TRUE, steps |-> steps]}
    ELSE LET valid_neighbors == ValidNeighbors(G, curr, local_visited)
         IN IF valid_neighbors = {}
            THEN {[valid_walk |-> FALSE, steps |-> steps]}
            ELSE UNION {
                   IF ~IsValidNodeLabel(GLabel(G, n))
                   THEN {[valid_walk |-> FALSE, steps |-> steps]}
                   ELSE UNION {
                          Walks(G, n, local_visited \cup {n},
                                Append(steps,
                                       MakeStep(G, steps, curr, n, G.edges[k])),
                                left - 1) : k \in EdgeKeys(G, curr, n)}
                   : n \in valid_neighbors}

AppsUsed(steps) == {steps[i].app : i \in 1..Len(steps)}

\* (mutant) the gate without the diversity test
AcceptsWalkAnyApps(w, min_len) == w.valid_walk /\ Len(w.steps) >= min_len

\* (mutant) the diversity test off by one
AcceptsWalkOneApp(w, min_len) ==
    w.valid_walk /\ Len(w.steps) >= min_len
                 /\ Cardinality(AppsUsed(w.steps)) >= 1

\* generator.py 247-248: the acceptance gate
AcceptsWalk(w, min_len) ==
    w.valid_walk /\ Len(w.steps) >= min_len
                 /\ Cardinality(AppsUsed(w.steps)) >= 2

\* (mutant) the upper end is not a possible length, one past it is
RandIntPastEnd(a, b) == a..(b + 1)

\* generator.py 199: rng.randint(min_len, max_len), both ends included
RandInt(a, b) == a..b

\* generator.py 181: the attempt budget per requested path
AttemptFactor == 500

\* (mutant) a budget of one attempt per requested path
BudgetExhaustedEarly(n, total_paths) == n > total_paths

BudgetExhausted(n, total_paths) == n > total_paths * AttemptFactor

\* generator.py 185: sorted(nodes, key=usage), a stable sort
RECURSIVE SortByUsage(_, _)
SortByUsage(ids, usage) ==
    IF ids = <<>> THEN <<>>
    ELSE LET m == CHOOSE i \in 1..Len(ids) :
                    /\ \A j \in 1..Len(ids) : usage[ids[i]] <= usage[ids[j]]
                    /\ \A j \in 1..(i - 1) : usage[ids[j]] > usage[ids[i]]
         IN <<ids[m]>> \o SortByUsage(SubSeq(ids, 1, m - 1)
                                       \o SubSeq(ids, m + 1, Len(ids)), usage)

\* (mutant) the pool size rounded up
TopKRoundedUp(n) == (3 * n + 9) \div 10

\* generator.py 186: max(1, int(len(nodes) * 0.3))
TopK(n) == IF (3 * n) \div 10 >= 1 THEN (3 * n) \div 10 ELSE 1

\* generator.py 185-187: the nodes rng.choice draws the start node from
StartPool(G, usage) ==
    Range(SubSeq(SortByUsage(GNodeIds(G), usage), 1, TopK(Len(G.nodes))))

\* generator.py 185-187: candidates[:top_k]
StartList(G, usage) ==
    SubSeq(SortByUsage(GNodeIds(G), usage), 1, TopK(Len(G.nodes)))

\* generator.py 203: list(G.successors(curr)), in the order the adjacency of
\* curr got its keys
SuccessorList(G, curr) ==
    LET out == SelectSeq(G.edges, LAMBDA e : e.src = curr)
    IN Uniq([i \in 1..Len(out) |-> out[i].dst])

\* generator.py 204
ValidNeighborList(G, curr, local_visited) ==
    SelectSeq(SuccessorList(G, curr), LAMBDA n : n \notin local_visited)

\* generator.py 219: list(edge_data_raw.keys())
EdgeKeyList(G, curr, n) ==
    SelectSeq([i \in 1..Len(G.edges) |-> i],
              LAMBDA i : G.edges[i].src = curr /\ G.edges[i].dst = n)

\* rng.choice(seq): one draw below len(seq); [rng, x]
Choice(s, seq) ==
    LET s1 == RngNext(s)
    IN [rng |-> s1, x |-> seq[RandBelow(s1, Len(seq)) + 1]]

\* rng.randint(a, b): one draw below b - a + 1; [rng, x]
RandIntDraw(s, a, b) ==
    LET s1 == RngNext(s)
    IN [rng |-> s1, x |-> a + RandBelow(s1, b - a + 1)]

\* generator.py 202-245: the walk loop driven by the seeded generator;
\* [rng, valid_walk, steps]
RECURSIVE SeededWalk(_, _, _, _, _, _)
SeededWalk(G, s, curr, local_visited, steps, left) ==
    IF left = 0 THEN [rng |-> s, valid_walk |-> TRUE, steps |-> steps]
    ELSE LET valid_neighbors == ValidNeighborList(G, curr, local_visited)
         IN IF valid_neighbors = <<>>
            THEN [rng |-> s, valid_walk |-> FALSE, steps |-> steps]
            ELSE LET sel == Choice(s, valid_neighbors)
                     selected_n == sel.x
                 IN IF ~IsValidNodeLabel(GLabel(G, selected_n))
                    THEN [rng |-> sel.rng, valid_walk |-> FALSE,
                          steps |-> steps]
                    ELSE LET key == Choice(sel.rng,
                                           EdgeKeyList(G, curr, selected_n))
                         IN SeededWalk(G, key.rng, selected_n,
                                       local_visited \cup {selected_n},
                                       Append(steps,
                                              MakeStep(G, steps, curr,
                                                       selected_n,
                                                       G.edges[key.x])),
                                       left - 1)

-----------------------------------------------------------------------------
(* TaskGenerator: context fetch and step validation (generator.py 40-166)   *)

\* generator.py 42-43: config_data["domains"][domain]["apps"]: the domain
\* an app is declared in
AppDomain == [a \in {"Wiki", "Store"} |->
                IF a = "Wiki" THEN "Social" ELSE "Retail"]

\* the "constraints" of the entity types in config_data, in document order:
\* [app, ent, constraints], a constraint string being its " "-separated tokens
GenConfig ==
    << [app |-> "Wiki", ent |-> "Person",
        constraints |-> << <<"P569", "(born)">>, <<"P106">>, <<"P2047">> >>],
       [app |-> "Wiki", ent |-> "Book",
        constraints |-> << <<"P577", "(published)">>, <<"P625">> >>],
       [app |-> "Store", ent |-> "Person", constraints |-> << <<"P18">> >>],
       [app |-> "Store", ent |-> "Thing", constraints |-> <<>>] >>

\* generator.py 40-48: type_constraints[f"{app}.{ent}"], the last entry of a
\* key wins
TypeConstraints(key) ==
    LET hits == {i \in 1..Len(GenConfig) :
                    <<GenConfig[i].app, GenConfig[i].ent>> = key}
    IN IF hits = {} THEN <<>>
       ELSE LET i == CHOOSE j \in hits : \A l \in hits : l <= j
            IN [c \in 1..Len(GenConfig[i].constraints) |->
                    GenConfig[i].constraints[c][1]]

\* generator.py 82: ".Person" in type_key, tabulated for the entity types of
\* the model
PersonLike(key) == key[2] \in {"Person", "PersonPage"}

PersonExtras == {"P26", "P22", "P25", "P40", "P166"}

\* generator.py 80-85
ConstraintsList(key) ==
    IF PersonLike(key)
    THEN Range(TypeConstraints(key)) \cup PersonExtras
    ELSE Range(TypeConstraints(key))

\* A raw value is [kind, x]: "text" (x its text), "number" (x a number of
\* seconds), "date" (an ISO timestamp, x its year), "point" (a "Point(...)"
\* literal), "qid" (a text that starts with Q), "long" (80 characters or
\* more), "empty".
Dropped == [kind |-> "none", x |-> ""]

\* (mutant) the seconds are not padded to two digits
CleanConstraintValueNoPad(pid, val) ==
    IF val.kind = "empty" THEN Dropped
    ELSE IF pid = "P2047"
    THEN IF val.kind = "number"
         THEN [kind |-> "m:ss",
               x |-> ToString(val.x \div 60) \o ":" \o ToString(val.x % 60)]
         ELSE Dropped
    ELSE IF pid \in {"P577", "P569", "P570"} /\ val.kind = "date"
    THEN [kind |-> "year", x |-> val.x]
    ELSE IF val.kind = "point" THEN Dropped
    ELSE IF val.kind = "number" THEN [kind |-> "text", x |-> ToString(val.x)]
    ELSE val

\* generator.py 59-76
CleanConstraintValue(pid, val) ==
    IF val.kind = "empty" THEN Dropped
    ELSE IF pid = "P2047"
    THEN IF val.kind = "number"
         THEN [kind |-> "m:ss",
               x |-> ToString(val.x \div 60) \o ":"
                         \o ToString((val.x % 60) \div 10)
                         \o ToString((val.x % 60) % 10)]
         ELSE Dropped
    ELSE IF pid \in {"P577", "P569", "P570"} /\ val.kind = "date"
    THEN [kind |-> "year", x |-> val.x]
    ELSE IF val.kind = "point" THEN Dropped
    ELSE IF val.kind = "number" THEN [kind |-> "text", x |-> ToString(val.x)]
    ELSE val

\* generator.py 111: val and not val.startswith("Q") and len(val) < 80
RawValueOk(val) == val.kind \notin {"empty", "qid", "long"}

CtxKeys(c) == [i \in 1..Len(c) |-> c[i].p]
CtxHas(c, p) == \E i \in 1..Len(c) : c[i].p = p

\* generator.py 113-118: data[p] is the ", "-joined text of the distinct
\* clean values of p; here the sequence of these values
AddValue(data, p, v) ==
    IF CtxHas(data, p)
    THEN [i \in 1..Len(data) |->
            IF data[i].p = p /\ v \notin Range(data[i].v)
            THEN [data[i] EXCEPT !.v = Append(@, v)] ELSE data[i]]
    ELSE Append(data, [p |-> p, v |-> <<v>>])

RECURSIVE CollectData(_, _)
CollectData(data, bindings) ==
    IF bindings = <<>> THEN data
    ELSE LET r == Head(bindings)
             clean == CleanConstraintValue(r.p, r.val)
         IN CollectData(IF RawValueOk(r.val) /\ clean.kind # "none"
                        THEN AddValue(data, r.p, clean) ELSE data,
                        Tail(bindings))

\* generator.py 78-121: the data of _fetch_node_data(entity_id, type_key).
\* The service answers the bindings of entity_id whose p is in the VALUES
\* clause; a failing query leaves data empty.
FetchNodeData(svc, entity_id, key) ==
    IF ConstraintsList(key) = {} THEN <<>>
    ELSE IF entity_id \in svc.failing THEN <<>>
    ELSE CollectData(<<>>, SelectSeq(svc.bindings[entity_id],
                                      LAMBDA r : r.p \in ConstraintsList(key)))

\* dict.update: a key already there keeps its place and takes the new value
RECURSIVE DictUpdate(_, _)
DictUpdate(d, data) ==
    IF data = <<>> THEN d
    ELSE LET r == Head(data)
         IN DictUpdate(IF CtxHas(d, r.p)
                       THEN [i \in 1..Len(d) |->
                               IF d[i].p = r.p THEN r ELSE d[i]]
                       ELSE Append(d, r),
                       Tail(data))

\* generator.py 133-140: the fragments the test looks for
NavigationPrefixes ==
    {"click_", "pick_", "artist_link", "zoom_", "check_", "filmography"}

\* the text of an action key, cut where a fragment of NavigationPrefixes
\* starts or ends
ActionText(action) ==
    CASE action = "click_spouse" -> <<"click_", "spouse">>
      [] action = "check_spouse_of" -> <<"check_", "spouse_of">>
      [] action = "click_author" -> <<"click_", "author">>
      [] action = "pick_item" -> <<"pick_", "item">>
      [] action = "search_filmography" -> <<"search_", "filmography">>
      [] action = "double_click_cover" -> <<"double_", "click_", "cover">>
      [] OTHER -> <<action>>

\* generator.py 131-141: any(prefix in action for prefix in [...])
IsNavigation(action) ==
    \E i \in 1..Len(ActionText(action)) :
       ActionText(action)[i] \in NavigationPrefixes

\* generator.py 151-162
StrongProps ==
    {"P26", "P22", "P25", "P40", "P166", "P106", "P175", "P264", "P569", "P577"}

\* (mutant) a search step passes with any non-empty context
ValidateStepAnyContext(step, context) ==
    IsNavigation(step.action) \/ context # <<>>

\* generator.py 123-166
ValidateStepUniqueness(step, context) ==
    IF IsNavigation(step.action) THEN TRUE
    ELSE IF context = <<>> THEN FALSE
    ELSE \E i \in 1..Len(context) : context[i].p \in StrongProps

\* generator.py 321-330: the strong_props the description is sorted by
DescriptionStrongProps ==
    {"P26", "P22", "P166", "P106", "P175", "P264", "P569", "P577"}

\* generator.py 334: sorted_keys[:4]
DescriptionKeys == 4

\* generator.py 331-333: sorted(context.keys(), key=0 if strong else 1), a
\* stable sort of the keys in the order the dict holds them
SortedKeys(context) ==
    SelectSeq(context, LAMBDA r : r.p \in DescriptionStrongProps)
        \o SelectSeq(context, LAMBDA r : r.p \notin DescriptionStrongProps)

\* generator.py 314-338: the description of a step: the app, the start label
\* and the values of the first keys, which the text joins with ", "
Description(step, context) ==
    [app |-> step.app,
     start |-> step.from,
     cons |-> SubSeq([i \in 1..Len(context) |-> SortedKeys(context)[i].v], 1,
                     Min(DescriptionKeys, Len(context)))]

\* (mutant) an invalid step is left out of the path and the task goes on
RECURSIVE ValidatePathSkipsStep(_, _, _)
ValidatePathSkipsStep(path, rmap, k) ==
    IF k > Len(path) THEN [viable |-> TRUE, path |-> path]
    ELSE LET context == rmap[path[k].to_id]
             p1 == [path EXCEPT ![k].context = context]
             p2 == [p1 EXCEPT ![k].description = Description(path[k], context)]
         IN IF ~ValidateStepUniqueness(path[k], context)
            THEN ValidatePathSkipsStep(SubSeq(p1, 1, k - 1)
                                         \o SubSeq(p1, k + 1, Len(p1)), rmap, k)
            ELSE ValidatePathSkipsStep(p2, rmap, k + 1)

\* generator.py 299-340: the steps of a candidate up to its first invalid
\* step get their context, the valid ones their description; [viable, path]
RECURSIVE ValidatePath(_, _, _)
ValidatePath(path, rmap, k) ==
    IF k > Len(path) THEN [viable |-> TRUE, path |-> path]
    ELSE LET context == rmap[path[k].to_id]
             p1 == [path EXCEPT ![k].context = context]
             p2 == [p1 EXCEPT ![k].description = Description(path[k], context)]
         IN IF ~ValidateStepUniqueness(path[k], context)
            THEN [viable |-> FALSE, path |-> p1]
            ELSE ValidatePath(p2, rmap, k + 1)

\* variant of CountUsage that counts the node a step leaves
RECURSIVE CountUsageFrom(_, _)
CountUsageFrom(usage, path) ==
    IF path = <<>> THEN usage
    ELSE CountUsageFrom([usage EXCEPT ![Head(path).from_id] = @ + 1], Tail(path))

\* generator.py 342-346
RECURSIVE CountUsage(_, _)
CountUsage(usage, path) ==
    IF path = <<>> THEN usage
    ELSE CountUsage([usage EXCEPT ![Head(path).to_id] = @ + 1], Tail(path))

-----------------------------------------------------------------------------
(* Graphs and context services generate_tasks is run against *)

GNode(id, label) == [id |-> id, label |-> label]

GEdge(u, v, app, action_key, target_type) ==
    [src |-> u, dst |-> v, app |-> app, action_key |-> action_key,
     target_type |-> target_type]

\* two apps, parallel edges, a cycle, a self loop, a dead end
GraphDiverse ==
    [nodes |-> << GNode("A", "Alice"), GNode("B", "Bob"), GNode("C", "Carol"),
                  GNode("D", "Dave") >>,
     edges |-> << GEdge("A", "B", "Wiki", "search_spouse", "Person"),
                  GEdge("A", "B", "Store", "click_spouse", "Person"),
                  GEdge("A", "A", "Store", "find_related", "Thing"),
                  GEdge("B", "C", "Store", "pick_item", "Thing"),
                  GEdge("B", "C", "Wiki", "search_works", "Book"),
                  GEdge("B", "A", "Wiki", "check_spouse_of", "Person"),
                  GEdge("C", "D", "Store", "search_spouse", "Person"),
                  GEdge("C", "D", "Wiki", "click_author", "Person"),
                  GEdge("C", "A", "Wiki", "click_spouse", "Person") >>]

\* four nodes, every edge of the same app
GraphSingleApp ==
    [nodes |-> << GNode("A", "Alice"), GNode("B", "Bob"), GNode("C", "Carol"),
                  GNode("D", "Dave") >>,
     edges |-> << GEdge("A", "B", "Wiki", "click_spouse", "Person"),
                  GEdge("A", "C", "Wiki", "search_works", "Book"),
                  GEdge("B", "C", "Wiki", "search_works", "Book"),
                  GEdge("C", "D", "Wiki", "click_author", "Person"),
                  GEdge("D", "A", "Wiki", "check_spouse_of", "Person") >>]

\* blacklisted labels, a node without label, search steps only
GraphLabels ==
    [nodes |-> << GNode("B", "Bob"), GNode("A", "List of songs"),
                  GNode("C", NoAttr), GNode("D", "Bob discography"),
                  GNode("E", "Erin") >>,
     edges |-> << GEdge("B", "C", "Wiki", "search_works", "Book"),
                  GEdge("B", "D", "Store", "search_spouse", "Person"),
                  GEdge("C", "E", "Store", "search_spouse", "Person"),
                  GEdge("C", "E", "Store", "click_spouse", "Person"),
                  GEdge("C", "A", "Store", "search_spouse", "Person"),
                  GEdge("E", "B", "Wiki", "search_filmography", "Person") >>]

\* the blacklisted node comes first: every attempt stops at the start label
GraphBadStart ==
    [nodes |-> << GNode("A", "Category:People"), GNode("B", "Bob") >>,
     edges |-> << GEdge("A", "B", "Wiki", "click_spouse", "Person"),
                  GEdge("B", "A", "Store", "search_spouse", "Person") >>]

\* the seed alone, with an edge to itself
GraphSeedOnly ==
    [nodes |-> << GNode("A", "StartNode") >>,
     edges |-> << GEdge("A", "A", "Wiki", "click_spouse", "Person") >>]

GenGraphs ==
    {GraphDiverse, GraphSingleApp, GraphLabels, GraphBadStart, GraphSeedOnly}

Val(kind, x) == [kind |-> kind, x |-> x]
Bind(p, val) == [p |-> p, val |-> val]
NoBindings == [e \in Entities |-> <<>>]

CtxRich ==
    [failing |-> {},
     bindings |-> [NoBindings EXCEPT
        !["A"] = << Bind("P26", Val("text", "Bob")),
                    Bind("P2047", Val("number", 125)) >>,
        !["B"] = << Bind("P18", Val("text", "bob.jpg")),
                    Bind("P569", Val("date", "1989")),
                    Bind("P26", Val("text", "Alice")),
                    Bind("P106", Val("text", "singer")),
                    Bind("P106", Val("qid", "Q177220")) >>,
        !["C"] = << Bind("P577", Val("date", "2014")),
                    Bind("P625", Val("point", "Point(1 2)")) >>,
        !["D"] = << Bind("P18", Val("text", "dave.jpg")) >>,
        !["E"] = << Bind("P569", Val("empty", "")),
                    Bind("P26", Val("long", "x")) >>]]

\* the context query of B fails
CtxFailing == [CtxRich EXCEPT !.failing = {"B"}]

\* no entity has any attribute
CtxEmpty == [failing |-> {}, bindings |-> NoBindings]

\* B has a picture and a child
CtxFamily ==
    [failing |-> {},
     bindings |-> [NoBindings EXCEPT
        !["B"] = << Bind("P18", Val("text", "bob.jpg")),
                    Bind("P40", Val("text", "Cleo")) >>]]

CtxServices == {CtxRich, CtxFailing, CtxEmpty, CtxFamily}

-----------------------------------------------------------------------------
(* generate_tasks(G, total_paths, min_len, max_len) *)

\* the task file tasks_<seed>_verified.json: not written, or its content
NoFile == [written |-> FALSE, tasks |-> <<>>]

NotReturned == [shape |-> "none", tasks |-> <<>>, file |-> NoFile]

GenIdle ==
    /\ gen = [G |-> GraphSeedOnly, total_paths |-> 1, min_len |-> 1,
              max_len |-> 1]
    /\ global_node_usage = [e \in Entities |-> 0]
    /\ attempts = 0
    /\ loop_exit = ""
    /\ tasks = <<>>
    /\ ctx_service = CtxEmpty
    /\ query_jobs = {}
    /\ results_map = [e \in Entities |-> <<>>]
    /\ final_valid_tasks = <<>>
    /\ v_idx = 0
    /\ g_pc = "idle"
    /\ returned = NotReturned
    /\ g_seed = 0
    /\ g_rng = 0
    /\ g_runs = 0
    /\ last_tasks = NotReturned

GenCalls ==
    {[G |-> g, total_paths |-> tp, min_len |-> a, max_len |-> b] :
        g \in GenGraphs, tp \in 1..MaxTotalPaths,
        a \in 1..MaxLenBound, b \in 1..MaxLenBound}

\* generator.py 13-38: a constructed TaskGenerator, about to be called
GenInit ==
    /\ gen \in {c \in GenCalls : c.min_len <= c.max_len}
    /\ global_node_usage = [e \in Entities |-> 0]
    /\ attempts = 0
    /\ loop_exit = ""
    /\ tasks = <<>>
    /\ ctx_service = CtxEmpty
    /\ query_jobs = {}
    /\ results_map = [e \in Entities |-> <<>>]
    /\ final_valid_tasks = <<>>
    /\ v_idx = 0
    /\ g_pc = "idle"
    /\ returned = NotReturned
    /\ g_seed = 0
    /\ g_rng = 0
    /\ g_runs = 0
    /\ last_tasks = NotReturned

\* generator.py 168-178: the call; a graph of fewer than 2 nodes returns []
GenerateTasks ==
    /\ g_pc = "idle"
    /\ IF Len(gen.G.nodes) < 2
       THEN /\ g_pc' = "returned"
            /\ returned' = [shape |-> "list", tasks |-> <<>>, file |-> NoFile]
       ELSE /\ g_pc' = "sampling"
            /\ UNCHANGED returned
    /\ g_rng' = RngSeed(g_seed)
    /\ UNCHANGED <<gen, global_node_usage, attempts, loop_exit, tasks, ctx_service,
                   query_jobs, results_map, final_valid_tasks, v_idx>>
    /\ UNCHANGED <<crawl_vars, fetch_vars, run_vars, aux_vars>>

\* generator.py 247-262: a candidate task
MakeTask(n, steps) ==
    [task_id |-> <<"temp", n>>,
     meta |-> [complexity |-> Len(steps), apps |-> AppsUsed(steps)],
     path |-> steps]

\* generator.py 180-263: one iteration of the sampling loop
Attempt ==
    /\ g_pc = "sampling"
    /\ Len(tasks) < gen.total_paths
    /\ ~BudgetExhausted(attempts, gen.total_paths)
    /\ attempts' = attempts + 1
    /\ \E start_node \in StartPool(gen.G, global_node_usage) :
          IF ~IsValidNodeLabel(GLabel(gen.G, start_node))
          THEN UNCHANGED tasks
          ELSE \E target_len \in RandInt(gen.min_len, gen.max_len) :
                 \E w \in Walks(gen.G, start_node, {start_node}, <<>>,
                                 target_len) :
                    IF AcceptsWalk(w, gen.min_len)
                    THEN tasks' = Append(tasks, MakeTask(Len(tasks), w.steps))
                    ELSE UNCHANGED tasks
    /\ UNCHANGED <<gen, global_node_usage, loop_exit, ctx_service, query_jobs,
                   results_map, final_valid_tasks, v_idx, g_pc, returned>>
    /\ UNCHANGED <<crawl_vars, fetch_vars, run_vars, g_rng, aux_vars>>

\* generator.py 269-275
QueryJobs(ts) ==
    UNION {{<<ts[i].path[j].to_id,
              <<ts[i].path[j].app, ts[i].path[j].target_type>>>> :
                j \in {k \in 1..Len(ts[i].path) :
                          ts[i].path[k].to_id # "" /\ ts[i].path[k].target_type # ""}} :
           i \in 1..Len(ts)}

\* generator.py 180-182, 265-282: the loop ends; the context fetches of the
\* candidates are submitted
SamplingDone ==
    /\ g_pc = "sampling"
    /\ ~(Len(tasks) < gen.total_paths) \/ BudgetExhausted(attempts, gen.total_paths)
    /\ loop_exit' = IF Len(tasks) < gen.total_paths THEN "budget" ELSE "count"
    /\ attempts' = 0       \* not read after the loop
    /\ ctx_service' \in IF g_runs = 0 THEN CtxServices ELSE {ctx_service}
    /\ query_jobs' = QueryJobs(tasks)
    /\ results_map' = [e \in Entities |-> <<>>]
    /\ g_pc' = "fetching"
    /\ UNCHANGED <<gen, global_node_usage, tasks, final_valid_tasks, v_idx,
                   returned>>
    /\ UNCHANGED <<crawl_vars, fetch_vars, run_vars, g_rng, aux_vars>>

\* as_completed yields the fetches in any order.  Joins of different
\* entities write different keys of results_map and commute, so the entities
\* are taken in one order and the fetches of one entity in every order.
EntityRank(e) == CHOOSE i \in 1..5 : <<"A", "B", "C", "D", "E">>[i] = e

JoinableNow(jobs, j) ==
    j \in jobs /\ \A o \in jobs : EntityRank(j[1]) <= EntityRank(o[1])

\* generator.py 283-291: a finished context fetch is joined
JoinContext(j) ==
    /\ g_pc = "fetching"
    /\ JoinableNow(query_jobs, j)
    /\ query_jobs' = query_jobs \ {j}
    /\ results_map' = [results_map EXCEPT ![j[1]] =
                          DictUpdate(@, FetchNodeData(ctx_service, j[1], j[2]))]
    /\ UNCHANGED <<gen, global_node_usage, attempts, loop_exit, tasks, ctx_service,
                   final_valid_tasks, v_idx, g_pc, returned>>
    /\ UNCHANGED <<crawl_vars, fetch_vars, run_vars, g_rng, aux_vars>>

\* generator.py 293: all context fetches are joined
FetchingDone ==
    /\ g_pc = "fetching"
    /\ query_jobs = {}
    /\ final_valid_tasks' = <<>>
    /\ v_idx' = 0
    /\ g_pc' = "validating"
    /\ UNCHANGED <<gen, global_node_usage, attempts, loop_exit, tasks, ctx_service,
                   query_jobs, results_map, returned>>
    /\ UNCHANGED <<crawl_vars, fetch_vars, run_vars, g_rng, aux_vars>>

\* (mutant) a rejected candidate is dropped and sampled anew
ValidateTaskResamples ==
    /\ g_pc = "validating"
    /\ v_idx < Len(tasks)
    /\ LET t == tasks[v_idx + 1]
           r == ValidatePath(t.path, results_map, 1)
       IN IF r.viable
          THEN LET done == [t EXCEPT !.path = r.path,
                                     !.task_id = <<"task", Len(final_valid_tasks)>>]
               IN /\ global_node_usage' = CountUsage(global_node_usage, r.path)
                  /\ tasks' = [tasks EXCEPT ![v_idx + 1] = done]
                  /\ final_valid_tasks' = Append(final_valid_tasks, done)
                  /\ v_idx' = v_idx + 1
                  /\ UNCHANGED g_pc
          ELSE /\ tasks' = SubSeq(tasks, 1, v_idx)
               /\ g_pc' = "sampling"
               /\ UNCHANGED <<global_node_usage, final_valid_tasks, v_idx>>
    /\ UNCHANGED <<gen, attempts, loop_exit, ctx_service, query_jobs,
                   results_map, returned>>
    /\ UNCHANGED <<crawl_vars, fetch_vars, run_vars, g_rng, aux_vars>>

\* generator.py 295-350: one candidate is validated
ValidateTask ==
    /\ g_pc = "validating"
    /\ v_idx < Len(tasks)
    /\ v_idx' = v_idx + 1
    /\ LET t == tasks[v_idx + 1]
           r == ValidatePath(t.path, results_map, 1)
       IN IF r.viable
          THEN LET done == [t EXCEPT !.path = r.path,
                                     !.task_id = <<"task", Len(final_valid_tasks)>>]
               IN /\ global_node_usage' = CountUsage(global_node_usage, r.path)
                  /\ tasks' = [tasks EXCEPT ![v_idx + 1] = done]
                  /\ final_valid_tasks' = Append(final_valid_tasks, done)
          ELSE /\ tasks' = [tasks EXCEPT ![v_idx + 1].path = r.path]
               /\ UNCHANGED <<global_node_usage, final_valid_tasks>>
    /\ UNCHANGED <<gen, attempts, loop_exit, ctx_service, query_jobs,
                   results_map, g_pc, returned>>
    /\ UNCHANGED <<crawl_vars, fetch_vars, run_vars, g_rng, aux_vars>>

\* generator.py 352-361: the verified tasks are written and returned
ReturnTasks ==
    /\ g_pc = "validating"
    /\ v_idx = Len(tasks)
    /\ returned' = [shape |-> "tuple", tasks |-> final_valid_tasks,
                    file |-> [written |-> TRUE, tasks |-> final_valid_tasks]]
    /\ g_pc' = "returned"
    /\ UNCHANGED <<gen, global_node_usage, attempts, loop_exit, tasks, ctx_service,
                   query_jobs, results_map, final_valid_tasks, v_idx>>
    /\ UNCHANGED <<crawl_vars, fetch_vars, run_vars, g_rng, aux_vars>>

\* generator.py 180-263: one iteration of the sampling loop, its draws taken
\* from rng = random.Random(seed_val)
SeededAttempt ==
    /\ g_pc = "sampling"
    /\ Len(tasks) < gen.total_paths
    /\ ~BudgetExhausted(attempts, gen.total_paths)
    /\ attempts' = attempts + 1
    /\ LET start == Choice(g_rng, StartList(gen.G, global_node_usage))
           start_node == start.x
       IN IF ~IsValidNodeLabel(GLabel(gen.G, start_node))
          THEN g_rng' = start.rng /\ UNCHANGED tasks
          ELSE LET target_len == RandIntDraw(start.rng, gen.min_len,
                                             gen.max_len)
                   w == SeededWalk(gen.G, target_len.rng, start_node,
                                   {start_node}, <<>>, target_len.x)
               IN /\ g_rng' = w.rng
                  /\ IF AcceptsWalk(w, gen.min_len)
                     THEN tasks' = Append(tasks, MakeTask(Len(tasks), w.steps))
                     ELSE UNCHANGED tasks
    /\ UNCHANGED <<gen, global_node_usage, loop_exit, ctx_service, query_jobs,
                   results_map, final_valid_tasks, v_idx, g_pc, returned>>
    /\ UNCHANGED <<crawl_vars, fetch_vars, run_vars, aux_vars>>

\* main.py 71-72: the program is run once more: a new TaskGenerator with the
\* same seed is given the same graph, and the context service answers as
\* before
RunAgain ==
    /\ g_pc = "returned"
    /\ g_runs + 1 < MaxGenRuns
    /\ g_runs' = g_runs + 1
    /\ last_tasks' = returned
    /\ global_node_usage' = [e \in Entities |-> 0]
    /\ attempts' = 0
    /\ loop_exit' = ""
    /\ tasks' = <<>>
    /\ query_jobs' = {}
    /\ results_map' = [e \in Entities |-> <<>>]
    /\ final_valid_tasks' = <<>>
    /\ v_idx' = 0
    /\ g_pc' = "idle"
    /\ returned' = NotReturned
    /\ g_rng' = 0
    /\ UNCHANGED <<gen, ctx_service, g_seed>>
    /\ UNCHANGED <<crawl_vars, fetch_vars, aux_vars>>

SeededNext ==
    \/ GenerateTasks
    \/ SeededAttempt
    \/ SamplingDone
    \/ \E j \in query_jobs : JoinContext(j)
    \/ FetchingDone
    \/ ValidateTask
    \/ ReturnTasks
    \/ RunAgain

GenNext ==
    \/ GenerateTasks
    \/ Attempt
    \/ SamplingDone
    \/ \E j \in query_jobs : JoinContext(j)
    \/ FetchingDone
    \/ ValidateTask
    \/ ReturnTasks

-----------------------------------------------------------------------------
(* One call of a function, for every argument of the model *)

NoCall == [fn |-> "none"]
NoResult == [returned |-> FALSE]
Returns(x) == [returned |-> TRUE, value |-> x]

CallIdle == fn_call = NoCall /\ fn_result = NoResult

\* builder.py 352-366: networkx.node_link_data(G) of a MultiDiGraph, the
\* document json.dump writes.  A node object holds "id" and the attributes
\* the node has; the links follow G.edges(keys=True): by source node in node
\* order, by neighbor in adjacency order, by key; the key of an edge is the
\* number of edges added before it between the same pair.  Its values are
\* texts, numbers and booleans, which json.load gives back as written.
NodeObject(n) ==
    [a \in {"id"} \cup {k \in {"label", "type"} : n[k] # NoAttr} |-> n[a]]

Link(e, key) ==
    [source |-> e.src, target |-> e.dst, key |-> key,
     app |-> e.app, domain |-> e.domain, action_key |-> e.action_key,
     action_desc |-> e.action_desc, source_type |-> e.source_type,
     target_type |-> e.target_type]

LinksOf(G, u) ==
    LET succ == SuccessorList(G, u)
    IN Concat([j \in 1..Len(succ) |->
                 LET keys == EdgeKeyList(G, u, succ[j])
                 IN [k \in 1..Len(keys) |-> Link(G.edges[keys[k]], k - 1)]])

\* (mutant) the document of a graph taken for one without parallel edges:
\* no link has a key of its own
NodeLinkDataNoKeys(G) ==
    [directed |-> TRUE, multigraph |-> TRUE,
     nodes |-> [i \in 1..Len(G.nodes) |-> NodeObject(G.nodes[i])],
     links |-> LET ls == Concat([i \in 1..Len(G.nodes) |->
                                   LinksOf(G, G.nodes[i].id)])
               IN [i \in 1..Len(ls) |-> [ls[i] EXCEPT !.key = 0]]]

NodeLinkData(G) ==
    [directed |-> TRUE, multigraph |-> TRUE,
     nodes |-> [i \in 1..Len(G.nodes) |-> NodeObject(G.nodes[i])],
     links |-> Concat([i \in 1..Len(G.nodes) |-> LinksOf(G, G.nodes[i].id)])]

\* G.add_node(id, **attrs) of node_link_graph
NodeOf(o) ==
    [id |-> o.id,
     label |-> IF "label" \in DOMAIN o THEN o.label ELSE NoAttr,
     type |-> IF "type" \in DOMAIN o THEN o.type ELSE NoAttr]

\* G.add_edge(source, target, key, **attrs) of node_link_graph: an edge that
\* exists under this key between the pair takes the attributes, another
\* edge is added otherwise
AddKeyedEdge(es, l) ==
    LET e == [src |-> l.source, dst |-> l.target, key |-> l.key,
              app |-> l.app, domain |-> l.domain, action_key |-> l.action_key,
              action_desc |-> l.action_desc, source_type |-> l.source_type,
              target_type |-> l.target_type]
        same(x) == x.src = e.src /\ x.dst = e.dst /\ x.key = e.key
    IN IF \E i \in 1..Len(es) : same(es[i])
       THEN [i \in 1..Len(es) |-> IF same(es[i]) THEN e ELSE es[i]]
       ELSE Append(es, e)

RECURSIVE AddKeyedEdges(_, _)
AddKeyedEdges(es, links) ==
    IF links = <<>> THEN es
    ELSE AddKeyedEdges(AddKeyedEdge(es, Head(links)), Tail(links))

\* builder.py 362-366: networkx.node_link_graph(json.load(f))
NodeLinkGraph(data) ==
    [nodes |-> [i \in 1..Len(data.nodes) |-> NodeOf(data.nodes[i])],
     edges |-> AddKeyedEdges(<<>>, data.links)]

NoGraphFile == [directed |-> FALSE, multigraph |-> FALSE, nodes |-> <<>>,
                links |-> <<>>]
NoGraph == [nodes |-> <<>>, edges |-> <<>>]

FileIdle == graph_file = NoGraphFile /\ loaded_graph = NoGraph

\* main.py 58-66, builder.py 352-359: save_graph(G, graph_file) after the
\* crawl has returned G
SaveGraph ==
    /\ pc = "returned"
    /\ graph_file' = NodeLinkData([nodes |-> nodes, edges |-> edges])
    /\ pc' = "saved"
    /\ UNCHANGED loaded_graph
    /\ UNCHANGED <<params, rng, nodes, edges, queue, visited_or_queued, running,
                   completed, original_id, neighbors, count, runs, last_graph,
                   fetched>>
    /\ UNCHANGED <<fetch_vars, gen_vars, call_vars, para_vars>>

\* main.py 58, builder.py 361-366: load_graph(graph_file) of a later run of
\* the program
LoadGraph ==
    /\ pc = "saved"
    /\ loaded_graph' = NodeLinkGraph(graph_file)
    /\ pc' = "loaded"
    /\ UNCHANGED graph_file
    /\ UNCHANGED <<params, rng, nodes, edges, queue, visited_or_queued, running,
                   completed, original_id, neighbors, count, runs, last_graph,
                   fetched>>
    /\ UNCHANGED <<fetch_vars, gen_vars, call_vars, para_vars>>

-----------------------------------------------------------------------------
(* The paraphrasing of a task file: LLMClient.paraphrase_tasks                *)
(* (src/src/llm_client.py) and LLMParaphraser.run_batch (src/paraphrase.py). *)
(* A task of the file is [pre, script]: pre says that it carries a           *)
(* refined_query already, script is what the LLM answers to the attempts     *)
(* made for it: "error" (the call raises, or the content is not JSON),       *)
(* "empty" (a JSON object whose natural_query is absent or ""), "leak" (a    *)
(* query that names an entity of the path), "ok" (a query that does not).    *)
(* `legacy` says that the steps of the file carry the keys "domain" and      *)
(* "intent", which the steps written by generate_tasks do not.               *)

\* llm_client.py 136, paraphrase.py 99: retries = 3
Retries == 3

Answers == {"error", "empty", "leak", "ok"}

Absent == [kind |-> "absent", x |-> ""]
Null == [kind |-> "null", x |-> ""]
Str(x) == [kind |-> "str", x |-> x]

\* the query the LLM gave with answer a
QueryOf(a) ==
    CASE a = "empty" -> "" [] a = "leak" -> "leaky query" [] OTHER -> "query"

\* llm_client.py 136-191: the attempts of _process_single from attempt k on
RECURSIVE ClientAttempts(_, _)
ClientAttempts(script, k) ==
    IF k > Retries THEN Null
    ELSE IF script[k] = "ok" THEN Str(QueryOf(script[k]))
    ELSE ClientAttempts(script, k + 1)

\* paraphrase.py 98-126: the attempts of process_single_task from attempt k on
RECURSIVE ParaphraserAttempts(_, _)
ParaphraserAttempts(script, k) ==
    IF k > Retries THEN Null
    ELSE IF script[k] = "error" THEN ParaphraserAttempts(script, k + 1)
    ELSE Str(QueryOf(script[k]))

\* llm_client.py 87-191 and paraphrase.py 88-126: [raised, refined], refined
\* being the task's refined_query when the call ends
ProcessSingle(call, task, refined) ==
    IF task.pre THEN [raised |-> FALSE, refined |-> refined]
    ELSE IF call.impl = "LLMClient"
    THEN [raised |-> FALSE, refined |-> ClientAttempts(task.script, 1)]
    ELSE IF ~call.legacy
    THEN [raised |-> TRUE, refined |-> refined]   \* KeyError: 'domain'
    ELSE [raised |-> FALSE, refined |-> ParaphraserAttempts(task.script, 1)]

\* t.get("refined_query") is true
Truthy(refined) == refined.kind = "str" /\ refined.x # ""

NoOutput == [written |-> FALSE, tasks |-> <<>>]

ParaIdle ==
    /\ para_call = [impl |-> "LLMClient", legacy |-> FALSE, tasks |-> <<>>]
    /\ para_tasks = <<>>
    /\ para_running = {}
    /\ para_finished = {}
    /\ para_results = <<>>
    /\ para_out = NoOutput
    /\ para_pc = "idle"

\* llm_client.py 48-62, paraphrase.py 128-148: the file is read, one
\* _process_single per task is submitted
ParaphraseTasks ==
    /\ para_pc = "idle"
    /\ para_tasks' = [i \in 1..Len(para_call.tasks) |->
                        IF para_call.tasks[i].pre THEN Str("old query")
                        ELSE Absent]
    /\ para_running' = 1..Len(para_call.tasks)
    /\ para_pc' = "join"
    /\ UNCHANGED <<para_call, para_finished, para_results, para_out>>
    /\ UNCHANGED <<crawl_vars, fetch_vars, gen_vars, call_vars, file_vars>>

\* on a pool thread: the call for task i ends; it has written the task's
\* refined_query unless it raised
ParaWorkerDone(i) ==
    /\ i \in para_running
    /\ LET r == ProcessSingle(para_call, para_call.tasks[i], para_tasks[i])
       IN /\ para_tasks' = [para_tasks EXCEPT ![i] = r.refined]
          /\ para_finished' = para_finished \cup {[i |-> i, raised |-> r.raised]}
    /\ para_running' = para_running \ {i}
    /\ UNCHANGED <<para_call, para_results, para_out, para_pc>>
    /\ UNCHANGED <<crawl_vars, fetch_vars, gen_vars, call_vars, file_vars>>

\* llm_client.py 64-72, paraphrase.py 147-157: as_completed yields a
\* finished future; its task is appended unless the call raised
ParaJoin(f) ==
    /\ para_pc = "join"
    /\ f \in para_finished
    /\ para_finished' = para_finished \ {f}
    /\ para_results' = IF f.raised THEN para_results
                       ELSE Append(para_results, f.i)
    /\ UNCHANGED <<para_call, para_tasks, para_running, para_out, para_pc>>
    /\ UNCHANGED <<crawl_vars, fetch_vars, gen_vars, call_vars, file_vars>>

\* llm_client.py 75-79, paraphrase.py 159-164: the tasks of results with a
\* true refined_query are written
ParaWrite ==
    /\ para_pc = "join"
    /\ para_running = {} /\ para_finished = {}
    /\ para_out' = [written |-> TRUE,
                    tasks |-> SelectSeq(para_results,
                                        LAMBDA i : Truthy(para_tasks[i]))]
    /\ para_pc' = "returned"
    /\ UNCHANGED <<para_call, para_tasks, para_running, para_finished,
                   para_results>>
    /\ UNCHANGED <<crawl_vars, fetch_vars, gen_vars, call_vars, file_vars>>

ParaNext ==
    \/ ParaphraseTasks
    \/ \E i \in 1..Len(para_tasks) : ParaWorkerDone(i)
    \/ \E f \in para_finished : ParaJoin(f)
    \/ ParaWrite

AuxIdle == CallIdle /\ FileIdle /\ ParaIdle

\* the attribute ids and raw values _clean_constraint_value is called with
CleanPids == {"P2047", "P569", "P577", "P18"}

CleanNumberCalls ==
    {[fn |-> "_clean_constraint_value", pid |-> p, val |-> Val("number", n)] :
        p \in CleanPids, n \in 0..MaxSeconds}

CleanTextCalls ==
    {[fn |-> "_clean_constraint_value", pid |-> p, val |-> v] :
        p \in CleanPids,
        v \in {Val("text", "Bob"), Val("date", "1989"),
               Val("point", "Point(1 2)"), Val("empty", "")}}

\* generator.py 59-76: _clean_constraint_value(pid, val) returns
CleanCall ==
    /\ fn_call.fn = "_clean_constraint_value"
    /\ ~fn_result.returned
    /\ fn_result' = Returns(CleanConstraintValue(fn_call.pid, fn_call.val))
    /\ UNCHANGED fn_call
    /\ UNCHANGED <<crawl_vars, fetch_vars, gen_vars, file_vars, para_vars>>

\* the (relation, target) fields an action entry of a document may have
ActionFields ==
    {[relation |-> r, target |-> t] :
        r \in {NoRelation, <<"P26">>, <<"reverse", "P26">>,
               <<"reverse", "P50", "author">>},
        t \in {None, "Person", "Book"}}

\* documents of two entity types of one app with every choice of filters
\* and of two actions on the first and one on the second
SchemaDocs ==
    {SchemaP26, SchemaRich} \cup
    {<< Ent("Social", "Wiki", "Person", f,
            << Act("first", a.relation, a.target),
               Act("second", b.relation, b.target) >>),
        Ent("Social", "Wiki", "Book", g,
            << Act("third", c.relation, c.target) >>) >> :
        f \in {{}, {"Q5"}}, g \in {{}, {"Q571"}},
        a \in ActionFields, b \in ActionFields,
        c \in {x \in ActionFields : x.target # "Book"}}

ParseCalls == {[fn |-> "_parse_schema_to_actions", doc |-> d] : d \in SchemaDocs}

\* builder.py 112-154: map_data, the actions of each relation id
MapData(doc) ==
    [p \in {a.pid : a \in Range(ParseSchemaToActions(doc))} |->
        PropToActions(doc, p)]

\* builder.py 95-154: _parse_schema_to_actions() returns
ParseCall ==
    /\ fn_call.fn = "_parse_schema_to_actions"
    /\ ~fn_result.returned
    /\ fn_result' = Returns([map_data |-> MapData(fn_call.doc),
                             entity_type_map |-> EntityTypeMap(fn_call.doc)])
    /\ UNCHANGED fn_call
    /\ UNCHANGED <<crawl_vars, fetch_vars, gen_vars, file_vars, para_vars>>

\* steps with every action key of the model and two keys in which a
\* navigation fragment stands further back, with contexts that are empty,
\* without and with a strong attribute
ValidateCalls ==
    {[fn |-> "_validate_step_uniqueness", step |-> [action |-> k],
      context |-> c] :
        k \in {"click_spouse", "check_spouse_of", "click_author", "pick_item",
               "search_spouse", "search_works", "find_related", "open_owner",
               "search_filmography", "double_click_cover"},
        c \in {<<>>,
               <<[p |-> "P18", v |-> "img"]>>,
               <<[p |-> "P569", v |-> "1989"]>>,
               <<[p |-> "P18", v |-> "img"], [p |-> "P26", v |-> "Bob"]>>}}

\* generator.py 123-166: _validate_step_uniqueness(step_data, context)
\* returns
ValidateCall ==
    /\ fn_call.fn = "_validate_step_uniqueness"
    /\ ~fn_result.returned
    /\ fn_result' = Returns([ok |-> ValidateStepUniqueness(fn_call.step,
                                                          fn_call.context),
                             navigation |-> IsNavigation(fn_call.step.action)])
    /\ UNCHANGED fn_call
    /\ UNCHANGED <<crawl_vars, fetch_vars, gen_vars, file_vars, para_vars>>

\* node lists of every length with every usage count of their nodes
PoolNodes(n) == [i \in 1..n |-> "N" \o ToString(i)]

PoolCalls ==
    UNION {{[fn |-> "start_node", nodes |-> PoolNodes(n), usage |-> u] :
               u \in [Range(PoolNodes(n)) -> 0..MaxUsage]} :
           n \in 1..MaxPoolNodes}

\* generator.py 185-187: the candidates are sorted by usage, the first top_k
\* are kept and rng.choice draws the start node from them
StartNodeCall ==
    /\ fn_call.fn = "start_node"
    /\ ~fn_result.returned
    /\ LET pool == SubSeq(SortByUsage(fn_call.nodes, fn_call.usage), 1,
                          TopK(Len(fn_call.nodes)))
       IN \E i \in 1..Len(pool) :
             fn_result' = Returns([pool |-> pool, start_node |-> pool[i]])
    /\ UNCHANGED fn_call
    /\ UNCHANGED <<crawl_vars, fetch_vars, gen_vars, file_vars, para_vars>>

CallNext ==
    \/ CleanCall
    \/ ParseCall
    \/ ValidateCall
    \/ StartNodeCall

-----------------------------------------------------------------------------
(* Specifications *)

\* the crawl: build_subgraph_parallel against every world
Init == CrawlInit /\ FetchIdle /\ GenIdle /\ AuxIdle
Next ==
    \/ CrawlNext
    \/ SaveGraph
    \/ LoadGraph
Spec == Init /\ [][Next]_vars

\* one fetch, with every failure count of its two queries
FetchWorlds ==
    {[w EXCEPT !.fails = [e \in Entities |-> ff]] :
        w \in Worlds, ff \in [Directions -> 0..MaxFails]}

FetchInit ==
    /\ world \in FetchWorlds
    /\ seed_val = 0
    /\ max_workers = 1
    /\ max_nodes = 1
    /\ max_branch = 1
    /\ rng = RngSeed(seed_val)
    /\ nodes = <<>>
    /\ edges = <<>>
    /\ queue = <<>>
    /\ visited_or_queued = {}
    /\ running = {}
    /\ completed = {}
    /\ original_id = None
    /\ neighbors = <<>>
    /\ count = 0
    /\ pc = "idle"
    /\ runs = 0
    /\ last_graph = [nodes |-> <<>>, edges |-> <<>>]
    /\ fetched = [e \in Entities |-> 0]
    /\ FetchIdle
    /\ GenIdle
    /\ AuxIdle

FetchSpec == FetchInit /\ [][FetchNext]_vars

\* the builder constructed and not called
CrawlIdle ==
    /\ world = WorldScenario
    /\ seed_val = 0
    /\ max_workers = 1
    /\ max_nodes = 1
    /\ max_branch = 1
    /\ rng = RngSeed(seed_val)
    /\ nodes = <<>>
    /\ edges = <<>>
    /\ queue = <<>>
    /\ visited_or_queued = {}
    /\ running = {}
    /\ completed = {}
    /\ original_id = None
    /\ neighbors = <<>>
    /\ count = 0
    /\ pc = "idle"
    /\ runs = 0
    /\ last_graph = [nodes |-> <<>>, edges |-> <<>>]
    /\ fetched = [e \in Entities |-> 0]

\* generate_tasks on every graph of the model
GenSpecInit == CrawlIdle /\ FetchIdle /\ GenInit /\ AuxIdle

GenSpec == GenSpecInit /\ [][GenNext]_vars

\* one call of one function, for every argument of the model
CallInit ==
    /\ CrawlIdle
    /\ FetchIdle
    /\ GenIdle
    /\ \/ fn_call \in CleanNumberCalls
       \/ fn_call \in CleanTextCalls
       \/ fn_call \in ParseCalls
       \/ fn_call \in ValidateCalls
       \/ fn_call \in PoolCalls
    /\ fn_result = NoResult
    /\ FileIdle
    /\ ParaIdle

CallSpec == CallInit /\ [][CallNext]_vars

\* the tasks of a task file: a task that carries a refined_query already
\* gets no call of the LLM
ParaFileTasks ==
    {[pre |-> TRUE, script |-> [k \in 1..Retries |-> "error"]]}
      \cup {[pre |-> FALSE, script |-> sc] : sc \in [1..Retries -> Answers]}

ParaFiles == UNION {[1..n -> ParaFileTasks] : n \in 1..MaxParaTasks}

\* a task file is paraphrased by either class
ParaInit ==
    /\ CrawlIdle
    /\ FetchIdle
    /\ GenIdle
    /\ CallIdle
    /\ FileIdle
    /\ para_call \in {[impl |-> c, legacy |-> l, tasks |-> ts] :
                         c \in {"LLMClient", "LLMParaphraser"},
                         l \in BOOLEAN, ts \in ParaFiles}
    /\ para_tasks = <<>>
    /\ para_running = {}
    /\ para_finished = {}
    /\ para_results = <<>>
    /\ para_out = NoOutput
    /\ para_pc = "idle"

ParaSpec == ParaInit /\ [][ParaNext]_vars

\* the graphs on which tasks are accepted
SeededGraphs == {GraphDiverse, GraphLabels}

SeededCalls ==
    {[G |-> g, total_paths |-> tp, min_len |-> a, max_len |-> b] :
        g \in SeededGraphs, tp \in 1..MaxSeededPaths,
        a \in 1..MaxLenBound, b \in 1..MaxLenBound}

\* generate_tasks run and run again, the draws made by the generator seeded
\* with seed_val
SeededInit ==
    /\ CrawlIdle
    /\ FetchIdle
    /\ AuxIdle
    /\ gen \in {c \in SeededCalls : c.min_len <= c.max_len}
    /\ global_node_usage = [e \in Entities |-> 0]
    /\ attempts = 0
    /\ loop_exit = ""
    /\ tasks = <<>>
    /\ ctx_service = CtxEmpty
    /\ query_jobs = {}
    /\ results_map = [e \in Entities |-> <<>>]
    /\ final_valid_tasks = <<>>
    /\ v_idx = 0
    /\ g_pc = "idle"
    /\ returned = NotReturned
    /\ g_seed \in 0..MaxSeed
    /\ g_rng = 0
    /\ g_runs = 0
    /\ last_tasks = NotReturned

SeededSpec == SeededInit /\ [][SeededNext]_vars

-----------------------------------------------------------------------------
(* Properties of the crawl *)

NodeIds == {nodes[i].id : i \in 1..Len(nodes)}
EdgePairs == {<<edges[i].src, edges[i].dst>> : i \in 1..Len(edges)}
MidBatch == pc \in {"join", "merge"} /\ (running \cup completed) # {}
NextIsNew ==
    /\ pc = "merge" /\ neighbors # <<>> /\ count < max_branch
    /\ Head(neighbors).neighbor_id \notin visited_or_queued

\* C1: during and after build_subgraph_parallel with max_nodes >= 1 the graph
\* never holds more than max_nodes nodes, whatever the service answers and
\* whatever the order in which the fetch results are joined.
C1_NodeBudget == (pc # "idle" /\ max_nodes >= 1) => Len(nodes) <= max_nodes

\* the budget is used up in the middle of a batch and the next kept pair
\* names an entity not seen before
C1_Witness == MidBatch /\ NextIsNew /\ Len(nodes) = max_nodes

\* a node that was added by add_node (the seed or an admitted neighbor)
ExplicitNode(id) ==
    \E i \in 1..Len(nodes) : nodes[i].id = id /\ nodes[i].label # NoAttr

\* C2: both endpoints of every edge are nodes that were explicitly added to
\* the graph, also when the node budget is reached in the middle of a batch.
C2_NoDanglingEdge ==
    \A i \in 1..Len(edges) :
        ExplicitNode(edges[i].src) /\ ExplicitNode(edges[i].dst)

\* the crawl has returned after a new neighbor met the used-up budget while
\* results of the batch were still to be joined, and the graph has edges
C2_Witness ==
    /\ pc = "returned" /\ Len(nodes) = max_nodes /\ Len(edges) >= 2
    /\ queue # <<>>
    /\ \E e \in Entities : fetched[e] > 0 /\
          \E i \in 1..Len(FetchNodeNeighbors(world, e)) :
              FetchNodeNeighbors(world, e)[i].neighbor_id \notin NodeIds

\* the nodes reached from the nodes of S over at most n edges
RECURSIVE ReachedWithin(_, _)
ReachedWithin(S, n) ==
    IF n = 0 THEN S
    ELSE ReachedWithin(S \cup {p[2] : p \in {q \in EdgePairs : q[1] \in S}},
                       n - 1)

\* C35: in every state of a crawl visited_or_queued is the node set of the
\* graph; a node enters the graph together with an edge from the entity
\* whose expansion discovered it, so every node but the seed has an incoming
\* edge from another node and every node is reachable from the seed.
C35_VisitedIsNodeSetAndReachable ==
    /\ [](pc # "idle" =>
            /\ visited_or_queued = NodeIds
            /\ \A n \in NodeIds \ {world.start} :
                  \E q \in EdgePairs : q[2] = n /\ q[1] # n
            /\ NodeIds = ReachedWithin({world.start}, Len(nodes)))
    /\ [][\A i \in 1..Len(nodes') :
             (pc = "merge" /\ nodes'[i].id \notin NodeIds) =>
                /\ Len(edges') = Len(edges) + 1
                /\ edges'[Len(edges')].src = original_id
                /\ edges'[Len(edges')].dst = nodes'[i].id
                /\ original_id \in NodeIds]_vars

\* the crawl returned a graph with a node two edges away from the seed,
\* after a new neighbor met the used-up budget
C35_Witness ==
    /\ pc = "returned" /\ Len(nodes) = max_nodes /\ Len(nodes) >= 3
    /\ NodeIds # ReachedWithin({world.start}, 1)
    /\ \E e \in Entities : fetched[e] > 0 /\
          \E i \in 1..Len(FetchNodeNeighbors(world, e)) :
              FetchNodeNeighbors(world, e)[i].neighbor_id \notin NodeIds

\* the attempts the query of entity e in direction d takes
AttemptsOf(e, d) ==
    ExecuteSparqlQuery(world.rows[e][d], world.fails[e][d], 1).attempts

\* the query attempts made so far by the fetches of the entities of S
RECURSIVE CrawlAttempts(_)
CrawlAttempts(S) ==
    IF S = {} THEN 0
    ELSE LET e == CHOOSE x \in S : TRUE
         IN fetched[e] * (AttemptsOf(e, "forward") + AttemptsOf(e, "reverse"))
               + CrawlAttempts(S \ {e})

\* the rows of direction d the fetch of e goes on with: none when the query
\* ran out of retries
RowsKept(e, d) ==
    IF world.fails[e][d] >= 3 THEN <<>> ELSE world.rows[e][d]

\* C38: within one crawl every entity is fetched at most once, and only
\* entities of the graph are fetched; a fetch makes the forward and then the
\* reverse query, each attempted at most 3 times, so a crawl makes at most
\* 6 x max_nodes attempts; the rows of one direction are kept when the
\* other direction ran out of retries.
C38_FetchOnceSixAttempts ==
    pc # "idle" =>
       /\ \A e \in Entities :
             /\ fetched[e] <= 1
             /\ fetched[e] = 1 =>
                   /\ e \in NodeIds
                   /\ \A d \in Directions : AttemptsOf(e, d) \in 1..3
                   /\ FetchNodeNeighbors(world, e)
                         = LocalResults(world.schema, "forward",
                                        RowsKept(e, "forward"))
                           \o LocalResults(world.schema, "reverse",
                                           RowsKept(e, "reverse"))
       /\ Cardinality({e \in Entities : fetched[e] > 0}) <= max_nodes
       /\ CrawlAttempts(Entities) <= 6 * max_nodes

\* the crawl returned; the forward query of the seed answered at its third
\* attempt, its reverse query ran out of retries, and the forward rows gave
\* the graph its edges from the seed
C38_Witness ==
    /\ pc = "returned" /\ fetched[world.start] = 1
    /\ AttemptsOf(world.start, "forward") = 3
    /\ world.fails[world.start]["forward"] = 2
    /\ world.fails[world.start]["reverse"] >= 3
    /\ world.rows[world.start]["reverse"] # <<>>
    /\ \E q \in EdgePairs : q[1] = world.start
    /\ Cardinality({e \in Entities : fetched[e] > 0}) >= 2

\* C3: two calls with the same seed, schema and (deterministic) service return
\* the same graph: same nodes, labels and edges in the same order.
C3_SameGraphEveryRun ==
    (pc = "returned" /\ runs >= 2) =>
        last_graph = [nodes |-> nodes, edges |-> edges]

InScenario == world = WorldScenario /\ max_nodes = 3 /\ max_branch = 2

\* C4 as stated: a reverse pair is stored neighbor -> entity, so the scenario
\* ends with nodes {A,B,C} and exactly the edges A->B and C->A.
C4_ReverseEdgeFlipped ==
    (InScenario /\ pc = "returned") =>
        /\ NodeIds = {"A", "B", "C"}
        /\ EdgePairs = {<<"A", "B">>, <<"C", "A">>}
        /\ Len(edges) = 2

\* C4 (amended): every accepted pair (entity e, neighbor n, action), forward or
\* reverse, is stored as an edge e -> n carrying that action; the scenario ends
\* with nodes {A,B,C} and exactly the edges A->B and A->C.
C4_EdgeFromExpandedEntity ==
    /\ \A i \in 1..Len(edges) :
          \E j \in 1..Len(FetchNodeNeighbors(world, edges[i].src)) :
              LET n == FetchNodeNeighbors(world, edges[i].src)[j]
              IN /\ n.neighbor_id = edges[i].dst
                 /\ n.action_metadata.app = edges[i].app
                 /\ n.action_metadata.action_key = edges[i].action_key
    /\ (InScenario /\ pc = "returned") =>
          /\ NodeIds = {"A", "B", "C"} /\ Len(nodes) = 3
          /\ EdgePairs = {<<"A", "B">>, <<"A", "C">>}
          /\ Len(edges) = 2

\* the scenario has returned and holds the edge of the reverse pair
C4_Witness ==
    /\ InScenario /\ pc = "returned"
    /\ \E i \in 1..Len(edges) : edges[i].action_key = "check_spouse_of"

-----------------------------------------------------------------------------
(* Properties of one fetch *)

FailsOf(d) == world.fails[fq_entity][d]

\* C5: a neighbor query is attempted at most 3 times; when the service fails
\* exactly twice the rows of the third attempt are used; when it fails 3 times
\* the query yields an empty result and no exception leaves run_query.
C5_RetryBound ==
    /\ fq_attempt < 3
    /\ fq_pc # "raised"
    /\ \A d \in Directions :
          fq_log[d].done =>
            /\ fq_log[d].attempts <= 3
            /\ FailsOf(d) = 2 =>
                  /\ fq_log[d].attempts = 3
                  /\ fq_log[d].res = world.rows[fq_entity][d]
            /\ FailsOf(d) >= 3 =>
                  /\ fq_log[d].attempts = 3
                  /\ fq_log[d].res = <<>>
    /\ fq_pc = "returned" =>
          fq_valid = Concat([i \in 1..2 |->
                        LocalResults(world.schema,
                                     <<"forward", "reverse">>[i],
                                     fq_log[<<"forward", "reverse">>[i]].res)])

\* a fetch has returned whose forward query failed twice and then gave rows
\* that were accepted, and whose reverse query failed three times
C5_Witness ==
    /\ fq_pc = "returned"
    /\ FailsOf("forward") = 2 /\ FailsOf("reverse") = 3
    /\ world.rows[fq_entity]["reverse"] # <<>>
    /\ fq_valid # <<>>
    /\ fq_valid = RunQuery(world, fq_entity, "forward")

\* the rows the query of direction d gave to the filter
RowsOf(d) == fq_log[d].res

\* C29: a row yields an accepted pair for an action only if the action's
\* direction is that of the query which returned the row and, when the
\* action's allow-list is not empty, the neighbor's root type is in it; an
\* action with an empty or absent allow-list accepts the neighbor of a row
\* of its relation and direction whatever the neighbor's type is.
C29_DirectionAndTargetType ==
    /\ \A k \in 1..Len(fq_valid) :
          LET a == fq_valid[k].action_metadata
          IN \E i \in 1..Len(RowsOf(a.direction)) :
                LET r == RowsOf(a.direction)[i]
                IN /\ r.n = fq_valid[k].neighbor_id
                   /\ r.p = a.pid
                   /\ a.allowed_root_types # {} => r.nt \in a.allowed_root_types
    /\ fq_pc = "returned" =>
          \A d \in Directions : \A i \in 1..Len(RowsOf(d)) :
             LET r == RowsOf(d)[i]
             IN \A a \in Range(PropToActions(world.schema, r.p)) :
                   (/\ a.direction = d
                    /\ SourceTypeOk(world.schema, a, r.my)
                    /\ a.allowed_root_types = {})
                   => \E k \in 1..Len(fq_valid) :
                         /\ fq_valid[k].neighbor_id = r.n
                         /\ fq_valid[k].action_metadata = a

\* the type filters the schema declares for the source entity type of a
SourceFilters(a) ==
    {world.schema[i].type_filter :
        i \in {j \in 1..Len(world.schema) :
                  /\ world.schema[j].domain = a.domain
                  /\ world.schema[j].app = a.app
                  /\ world.schema[j].ent = a.source_entity_type}}

\* C39: every accepted pair comes from a row whose observed root type of
\* the entity itself is in the type filter declared for the action's source
\* entity type, so an action whose source entity type declares no filter is
\* never accepted; an action whose target type declares none is accepted
\* for a row of its relation and direction whatever the neighbor's type.
C39_SourceTypeAllowed ==
    /\ \A k \in 1..Len(fq_valid) :
          LET a == fq_valid[k].action_metadata
          IN /\ \E f \in SourceFilters(a) : f # {}
             /\ \E i \in 1..Len(RowsOf(a.direction)) :
                   LET r == RowsOf(a.direction)[i]
                   IN /\ r.n = fq_valid[k].neighbor_id
                      /\ r.p = a.pid
                      /\ \E f \in SourceFilters(a) : r.my \in f
    /\ fq_pc = "returned" =>
          \A d \in Directions : \A i \in 1..Len(RowsOf(d)) :
             LET r == RowsOf(d)[i]
             IN \A a \in Range(PropToActions(world.schema, r.p)) :
                   (/\ a.direction = d
                    /\ \E f \in SourceFilters(a) : r.my \in f
                    /\ a.allowed_root_types = {})
                   => \E k \in 1..Len(fq_valid) :
                         /\ fq_valid[k].neighbor_id = r.n
                         /\ fq_valid[k].action_metadata = a

\* a fetch has returned that accepted a neighbor for an action whose target
\* type declares no filter, and that refused the same row for an action of
\* its relation and direction whose source entity type declares none
C39_Witness ==
    /\ fq_pc = "returned"
    /\ \E d \in Directions : \E i \in 1..Len(RowsOf(d)) :
          LET r == RowsOf(d)[i]
          IN /\ \E k \in 1..Len(fq_valid) :
                   /\ fq_valid[k].neighbor_id = r.n
                   /\ fq_valid[k].action_metadata.pid = r.p
                   /\ fq_valid[k].action_metadata.direction = d
                   /\ fq_valid[k].action_metadata.allowed_root_types = {}
             /\ \E a \in Range(PropToActions(world.schema, r.p)) :
                   /\ a.direction = d
                   /\ TargetTypeOk(a, r.nt)
                   /\ \A f \in SourceFilters(a) : f = {}
                   /\ \A k \in 1..Len(fq_valid) :
                         fq_valid[k].action_metadata # a

\* a fetch has returned that accepted a neighbor for an action without
\* allow-list and one for an action with an allow-list, and that refused
\* a row for an action of its relation and direction because the
\* neighbor's type is not in the allow-list
C29_Witness ==
    /\ fq_pc = "returned"
    /\ \E k \in 1..Len(fq_valid) :
          fq_valid[k].action_metadata.allowed_root_types = {}
    /\ \E k \in 1..Len(fq_valid) :
          fq_valid[k].action_metadata.allowed_root_types # {}
    /\ \E d \in Directions : \E i \in 1..Len(RowsOf(d)) :
          LET r == RowsOf(d)[i]
          IN \E a \in Range(PropToActions(world.schema, r.p)) :
                /\ a.direction = d
                /\ SourceTypeOk(world.schema, a, r.my)
                /\ a.allowed_root_types # {}
                /\ r.nt \notin a.allowed_root_types
                /\ \A k \in 1..Len(fq_valid) :
                      ~(/\ fq_valid[k].neighbor_id = r.n
                        /\ fq_valid[k].action_metadata = a)

-----------------------------------------------------------------------------
(* Properties of generate_tasks *)

\* the node ids a path visits: its start node and every step's to_id
PathNodes(path) ==
    <<path[1].from_id>> \o [k \in 1..Len(path) |-> path[k].to_id]

Distinct(seq) ==
    \A a, b \in 1..Len(seq) : a # b => seq[a] # seq[b]

HasReturned == g_pc = "returned"

\* C6: in every returned task the start node and the to_id of every step are
\* pairwise distinct.
C6_NoRepeatedNode ==
    \A i \in 1..Len(returned.tasks) :
        /\ returned.tasks[i].path # <<>>
        /\ Distinct(PathNodes(returned.tasks[i].path))
        /\ \A k \in 2..Len(returned.tasks[i].path) :
              returned.tasks[i].path[k].from_id
                  = returned.tasks[i].path[k - 1].to_id

\* a returned path of 3 steps along which an edge led back to the start node
C6_Witness ==
    /\ HasReturned
    /\ \E i \in 1..Len(returned.tasks) :
          LET path == returned.tasks[i].path
          IN /\ Len(path) = 3
             /\ \E k \in 2..Len(path) :
                   path[1].from_id \in Successors(gen.G, path[k].from_id)

\* C7: the number of steps of every returned task is at least min_len and at
\* most max_len.
C7_LengthInRange ==
    \A i \in 1..Len(returned.tasks) :
        /\ Len(returned.tasks[i].path) >= gen.min_len
        /\ Len(returned.tasks[i].path) <= gen.max_len

\* a task of exactly max_len steps was returned although the graph has longer
\* simple paths and shorter lengths were allowed
C7_Witness ==
    /\ HasReturned
    /\ gen.min_len < gen.max_len /\ gen.max_len = 2
    /\ gen.G = GraphDiverse
    /\ \E i \in 1..Len(returned.tasks) :
          Len(returned.tasks[i].path) = gen.max_len

\* C8: every returned task uses at least 2 distinct apps; a walk of a single
\* app is neither a candidate, nor persisted, nor returned.
C8_TwoApps ==
    /\ \A i \in 1..Len(returned.tasks) :
          Cardinality(AppsUsed(returned.tasks[i].path)) >= 2
    /\ \A i \in 1..Len(final_valid_tasks) :
          Cardinality(AppsUsed(final_valid_tasks[i].path)) >= 2
    /\ \A i \in 1..Len(tasks) : Cardinality(AppsUsed(tasks[i].path)) >= 2

\* a two-app task was returned from a graph in which the start node also has
\* complete single-app walks
C8_Witness ==
    /\ HasReturned /\ returned.tasks # <<>>
    /\ gen.G = GraphDiverse /\ gen.min_len = 2 /\ gen.max_len = 2
    /\ \E w \in Walks(gen.G, "A", {"A"}, <<>>, 2) :
          w.valid_walk /\ Cardinality(AppsUsed(w.steps)) = 1

HasStrong(context) ==
    \E k \in 1..Len(context) : context[k].p \in StrongProps

\* C9: in every returned task every step classified as search has a non-empty
\* context with at least one strong attribute id; a navigation step is
\* accepted whatever its context.
C9_SearchHasStrongContext ==
    \A i \in 1..Len(returned.tasks) :
        \A k \in 1..Len(returned.tasks[i].path) :
            LET step == returned.tasks[i].path[k]
            IN /\ step.context = results_map[step.to_id]
               /\ ~IsNavigation(step.action) =>
                     step.context # <<>> /\ HasStrong(step.context)

\* a returned task with a search step (strong context) and a navigation step
\* with an empty context
C9_Witness ==
    /\ HasReturned
    /\ \E i \in 1..Len(returned.tasks) :
          /\ \E k \in 1..Len(returned.tasks[i].path) :
                /\ ~IsNavigation(returned.tasks[i].path[k].action)
                /\ HasStrong(returned.tasks[i].path[k].context)
          /\ \E k \in 1..Len(returned.tasks[i].path) :
                /\ IsNavigation(returned.tasks[i].path[k].action)
                /\ returned.tasks[i].path[k].context = <<>>

\* every edge of the graph carries the same app
SingleApp(G) == Cardinality({G.edges[i].app : i \in 1..Len(G.edges)}) <= 1

\* C10 as stated: when every edge carries the same app, generate_tasks ends by
\* exhausting its attempt budget and returns an empty task list.
C10_SingleAppExhaustsBudget ==
    (SingleApp(gen.G) /\ HasReturned) =>
        loop_exit = "budget" /\ returned.tasks = <<>>

\* C10 (amended): when every edge carries the same app no walk passes the
\* gate, so no candidate, verified or returned task ever exists.  If the graph
\* has at least 2 nodes the sampling loop can only be left through the budget
\* test: while attempts <= 500 * total_paths the loop condition holds, the
\* counter never passes 500 * total_paths + 1, and after the loop there is
\* nothing to fetch or validate, so generate_tasks returns the empty list.
C10_SingleAppNoTask ==
    SingleApp(gen.G) =>
        /\ tasks = <<>> /\ final_valid_tasks = <<>> /\ returned.tasks = <<>>
        /\ g_pc = "sampling" =>
              /\ Len(gen.G.nodes) >= 2
              /\ attempts <= gen.total_paths * AttemptFactor + 1
              /\ Len(tasks) < gen.total_paths
              /\ StartPool(gen.G, global_node_usage) # {}
        /\ g_pc \in {"fetching", "validating"} =>
              loop_exit = "budget" /\ query_jobs = {} /\ v_idx = Len(tasks)
        /\ (HasReturned /\ Len(gen.G.nodes) >= 2) =>
              loop_exit = "budget" /\ returned.shape = "tuple"

\* the four-node single-app graph: the loop was left on the budget and the
\* empty list was returned
C10_Witness ==
    /\ SingleApp(gen.G) /\ Len(gen.G.nodes) = 4 /\ gen.G.edges # <<>>
    /\ HasReturned /\ loop_exit = "budget" /\ returned.shape = "tuple"
    /\ returned.tasks = <<>>

\* C33: the sampling loop always terminates.  While the loop runs an
\* iteration or the exit can be taken and the attempt counter is at most
\* 500 x total_paths + 1; every iteration, those abandoned at a
\* blacklisted start label, at a dead end or at the gate included, raises
\* the counter by one and adds at most one candidate, so the loop cannot
\* run for ever; it is left only with total_paths candidates or with the
\* budget of 500 x total_paths attempts used up.
C33_SamplingTerminates ==
    /\ [][/\ (g_pc = "sampling" /\ g_pc' = "sampling" /\ tasks' # tasks) =>
               (/\ Len(tasks') = Len(tasks) + 1
                /\ SubSeq(tasks', 1, Len(tasks)) = tasks
                /\ attempts' = attempts + 1)
          /\ (g_pc = "sampling" /\ g_pc' = "sampling" /\ attempts' # attempts) =>
               (/\ attempts' = attempts + 1
                /\ attempts <= 500 * gen.total_paths
                /\ Len(tasks) < gen.total_paths)
          /\ (g_pc = "sampling" /\ g_pc' # "sampling") =>
               (/\ g_pc' = "fetching"
                /\ \/ (Len(tasks) = gen.total_paths /\ loop_exit' = "count")
                   \/ (/\ Len(tasks) < gen.total_paths
                       /\ attempts >= 500 * gen.total_paths
                       /\ loop_exit' = "budget"))]_vars
    /\ [](g_pc = "sampling" =>
            /\ attempts <= 500 * gen.total_paths + 1
            /\ Len(tasks) <= gen.total_paths
            /\ StartPool(gen.G, global_node_usage) # {}
            /\ gen.min_len <= gen.max_len)

\* the loop is about to be left on the budget: every attempt was abandoned
C33_Witness ==
    /\ g_pc = "sampling"
    /\ attempts = 500 * gen.total_paths + 1
    /\ tasks = <<>>
    /\ Len(gen.G.nodes) >= 2

\* the place of a node among the nodes: the number of nodes with a lower
\* usage count, or with the same count and an earlier place in the list
PlaceOf(ns, usage, i) ==
    Cardinality({j \in 1..Len(ns) :
                    \/ usage[ns[j]] < usage[ns[i]]
                    \/ usage[ns[j]] = usage[ns[i]] /\ j < i})

\* C34: the start node is one of the k = max(1, floor(0.3 x |nodes|)) nodes
\* with the lowest usage count, ties kept in the order of the nodes; so
\* every node with a count strictly lower than the start node's is in that
\* pool.
C34_StartAmongLeastUsed ==
    (fn_call.fn = "start_node" /\ fn_result.returned) =>
       LET ns == fn_call.nodes
           usage == fn_call.usage
           k == IF (3 * Len(ns)) \div 10 >= 1
                THEN (3 * Len(ns)) \div 10 ELSE 1
           lowest == {ns[i] : i \in {j \in 1..Len(ns) :
                                           PlaceOf(ns, usage, j) < k}}
       IN /\ fn_result.value.start_node \in lowest
          /\ Range(fn_result.value.pool) = lowest
          /\ Cardinality(lowest) = k
          /\ \A i \in 1..Len(ns) :
                usage[ns[i]] < usage[fn_result.value.start_node]
                   => ns[i] \in lowest

\* a pool of two nodes with different counts, the start node the one used
\* more, while a later node of the list, used as often, is outside
C34_Witness ==
    /\ fn_call.fn = "start_node" /\ fn_result.returned
    /\ Len(fn_result.value.pool) = 2
    /\ fn_call.usage[fn_result.value.start_node] = 1
    /\ fn_call.usage[fn_result.value.pool[1]] = 0
    /\ fn_result.value.pool[1] # fn_call.nodes[1]
    /\ \E i \in 1..Len(fn_call.nodes) :
          /\ fn_call.nodes[i] \notin Range(fn_result.value.pool)
          /\ fn_call.usage[fn_call.nodes[i]] = 1

-----------------------------------------------------------------------------
(* Properties of the validation *)

\* what is compared of a task: its id and, step by step, the nodes, the app,
\* the action and the description (a context is compared as a dict is, by its
\* keys and values: the description is where the order of its keys shows)
TaskText(t) ==
    [task_id |-> t.task_id,
     path |-> [k \in 1..Len(t.path) |->
                 [from_id |-> t.path[k].from_id,
                  to_id |-> t.path[k].to_id,
                  app |-> t.path[k].app,
                  action |-> t.path[k].action,
                  description |-> t.path[k].description]]]

\* the action key begins with a navigation prefix
BeginsWithNavigationPrefix(action) ==
    ActionText(action)[1] \in NavigationPrefixes

\* C30: a step is classified as navigation exactly when its action key
\* begins with a navigation prefix; a step whose key does not begin with
\* one is a search step and passes only with a strong attribute in its
\* context.
C30_NavigationByPrefix ==
    (fn_call.fn = "_validate_step_uniqueness" /\ fn_result.returned) =>
       /\ fn_result.value.navigation
             <=> BeginsWithNavigationPrefix(fn_call.step.action)
       /\ ~BeginsWithNavigationPrefix(fn_call.step.action) =>
             (fn_result.value.ok <=> HasStrong(fn_call.context))

\* the attribute ids whose values the description of a step lists
ListedKeys(step) ==
    SubSeq(CtxKeys(SortedKeys(step.context)), 1,
           Min(DescriptionKeys, Len(step.context)))

\* C31: the description of every step of an accepted task lists at most
\* four context values, and every strong attribute of the context, by the
\* list that validates search steps, is listed before any attribute that
\* is not strong.
C31_StrongListedFirst ==
    \A i \in 1..Len(returned.tasks) :
        \A k \in 1..Len(returned.tasks[i].path) :
            LET step == returned.tasks[i].path[k]
                keys == ListedKeys(step)
            IN /\ Len(step.description.cons) <= 4
               /\ step.description.cons =
                     [j \in 1..Len(keys) |->
                        SortedKeys(step.context)[j].v]
               /\ \A a, b \in 1..Len(keys) :
                     (a < b /\ keys[b] \in StrongProps)
                        => keys[a] \in StrongProps
               /\ \A p \in Range(CtxKeys(step.context)) :
                     (p \in StrongProps /\ p \notin Range(keys))
                        => \A a \in 1..Len(keys) : keys[a] \in StrongProps

\* the attributes the service holds for entity e under type key `key`: what
\* a query that is answered gives
HeldData(svc, e, key) ==
    CollectData(<<>>, SelectSeq(svc.bindings[e],
                                LAMBDA r : r.p \in ConstraintsList(key)))

\* C32: a context fetch whose query fails is retried before it is given up:
\* with a service whose first answer for an entity is a failure and whose
\* next would be the entity's attributes (the entities of svc.failing), the
\* joined fetch still brings the attributes the service holds, and no
\* failure reaches the caller.
C32_ContextFetchRetried ==
    [][\A j \in query_jobs :
          (g_pc = "fetching" /\ query_jobs' = query_jobs \ {j}) =>
             /\ g_pc' = "fetching"
             /\ \A i \in 1..Len(HeldData(ctx_service, j[1], j[2])) :
                   CtxHas(results_map'[j[1]],
                          HeldData(ctx_service, j[1], j[2])[i].p)]_vars

\* a search-type step whose target has no strong attribute in its context
LacksStrong(step) ==
    ~IsNavigation(step.action) /\ ~HasStrong(results_map[step.to_id])

Rejected(t) == \E k \in 1..Len(t.path) : LacksStrong(t.path[k])

\* C15: a candidate with a search-type step that lacks a strong attribute is
\* rejected as a whole: the returned list and the task file hold exactly the
\* other candidates, complete and in their order.
C15_RejectedAsAWhole ==
    (HasReturned /\ returned.shape = "tuple") =>
        LET accepted == SelectSeq(tasks, LAMBDA t : ~Rejected(t))
        IN /\ returned.file = [written |-> TRUE, tasks |-> returned.tasks]
           /\ Len(returned.tasks) = Len(accepted)
           /\ \A i \in 1..Len(accepted) :
                 /\ returned.tasks[i].path = accepted[i].path
                 /\ ~Rejected(returned.tasks[i])
                 /\ Len(returned.tasks[i].path)
                       = returned.tasks[i].meta.complexity
                 /\ \A k \in 1..Len(returned.tasks[i].path) :
                       returned.tasks[i].path[k].step_idx = k

\* a candidate whose first step is valid and in which a later step is a
\* search with a context of weak attributes only: nothing of it is returned
\* or written
C15_Witness ==
    /\ HasReturned /\ returned.shape = "tuple"
    /\ \E j \in 1..Len(tasks) :
          /\ ~LacksStrong(tasks[j].path[1])
          /\ \E k \in 2..Len(tasks[j].path) :
                /\ LacksStrong(tasks[j].path[k])
                /\ results_map[tasks[j].path[k].to_id] # <<>>
    /\ returned.tasks = <<>> /\ returned.file.written

\* C20: the context attached to a step holds only attribute ids that the
\* schema declares as constraints of the step's own (app, target type),
\* together with the extras of _fetch_node_data when that type is
\* person-like, also when the step's target node is the target of another
\* step with another entity type.
C20_ContextOfOwnType ==
    \A i \in 1..Len(tasks) : \A k \in 1..Len(tasks[i].path) :
       LET step == tasks[i].path[k]
       IN Range(CtxKeys(step.context))
             \subseteq ConstraintsList(<<step.app, step.target_type>>)

\* C19: whatever graph the crawl has produced, a graph of the seed node
\* alone included, generate_tasks returns its task list in the result shape
\* of a normal run: the task list together with the task file, which main
\* unpacks into two names.
C19_SameResultShape ==
    HasReturned => /\ returned.shape = "tuple"
                   /\ returned.file = [written |-> TRUE, tasks |-> returned.tasks]

\* number of steps of the tasks ts whose target node is n
RECURSIVE StepsTargeting(_, _)
StepsTargeting(ts, n) ==
    IF ts = <<>> THEN 0
    ELSE Cardinality({k \in 1..Len(Head(ts).path) : Head(ts).path[k].to_id = n})
         + StepsTargeting(Tail(ts), n)

\* C36: the tasks returned are never more than the candidates sampled, and
\* these never more than total_paths; once the sampling loop is left no
\* candidate is added, so a rejected candidate is not replaced and fewer
\* tasks than asked for can be returned although the loop ended on the
\* count, not on the budget.
C36_RejectedNotReplaced ==
    /\ [](g_pc # "idle" =>
            /\ Len(tasks) <= gen.total_paths
            /\ Len(final_valid_tasks) <= Len(tasks)
            /\ (g_pc = "returned" =>
                  /\ Len(returned.tasks) <= Len(tasks)
                  /\ \A i \in 1..Len(returned.tasks) :
                        \E k \in 1..Len(tasks) : returned.tasks[i] = tasks[k]))
    /\ [][(g_pc = "fetching" \/ g_pc = "validating") =>
             (/\ Len(tasks') = Len(tasks)
              /\ g_pc' \in {"fetching", "validating", "returned"}
              /\ loop_exit' = loop_exit)]_vars

\* the loop ended on the count, the one candidate was rejected and nothing
\* was returned in its place
C36_Witness ==
    /\ g_pc = "returned" /\ loop_exit = "count"
    /\ Len(tasks) = gen.total_paths
    /\ Len(returned.tasks) < Len(tasks)
    /\ \E k \in 1..Len(tasks) : Rejected(tasks[k])

\* the label of node n of the input graph contains a blacklisted term,
\* whatever the case of its letters
HasBlacklistedTerm(n) ==
    LET text == Chars(GLabel(gen.G, n))
    IN \E term \in BlacklistedTerms :
          \E i \in 0..(Len(text) - Len(term)) :
             \A k \in 1..Len(term) : Lower(<<text[i + k]>>) = <<term[k]>>

\* the nodes of a task: its start node and the target of every step
TaskNodes(t) ==
    {t.path[k].from_id : k \in 1..Len(t.path)}
       \cup {t.path[k].to_id : k \in 1..Len(t.path)}

\* C40: no candidate, verified or returned task holds a node, start node or
\* target of a step, whose label contains a blacklisted term in any case of
\* its letters; an attempt whose walk selects such a node adds no candidate.
C40_NoBlacklistedNode ==
    /\ [](/\ \A i \in 1..Len(tasks) :
               \A n \in TaskNodes(tasks[i]) : ~HasBlacklistedTerm(n)
          /\ \A i \in 1..Len(final_valid_tasks) :
               \A n \in TaskNodes(final_valid_tasks[i]) : ~HasBlacklistedTerm(n)
          /\ \A i \in 1..Len(returned.tasks) :
               \A n \in TaskNodes(returned.tasks[i]) : ~HasBlacklistedTerm(n))
    /\ [][(g_pc = "sampling" /\ tasks' # tasks) =>
             (/\ Len(tasks') = Len(tasks) + 1
              /\ \A k \in 1..Len(tasks'[Len(tasks')].path) :
                    LET step == tasks'[Len(tasks')].path[k]
                    IN /\ ~HasBlacklistedTerm(step.from_id)
                       /\ ~HasBlacklistedTerm(step.to_id)
                       /\ step.from = GLabel(gen.G, step.from_id)
                       /\ step.to = GLabel(gen.G, step.to_id))]_vars

\* a task was returned on a graph where a node of its path has a successor
\* whose label holds a blacklisted term in lower case, and a node of its
\* path a successor whose label holds one written with a capital letter
C40_Witness ==
    /\ g_pc = "returned" /\ Len(returned.tasks) >= 1
    /\ \E n \in TaskNodes(returned.tasks[1]) :
          \E m \in Successors(gen.G, n) :
             /\ HasBlacklistedTerm(m)
             /\ ~IsValidNodeLabelCaseSensitive(GLabel(gen.G, m))
    /\ \E n \in TaskNodes(returned.tasks[1]) :
          \E m \in Successors(gen.G, n) :
             /\ HasBlacklistedTerm(m)
             /\ IsValidNodeLabelCaseSensitive(GLabel(gen.G, m))

\* C16: the generator starts with every usage counter at 0; at every point of
\* a generate_tasks call, and after it, the counter of every node n equals
\* the number of steps of the tasks accepted so far whose target node is n,
\* so the steps of a rejected candidate, validated or not, count for nothing
C16_UsageCountsAcceptedSteps ==
    /\ \A n \in Entities :
          global_node_usage[n] = StepsTargeting(final_valid_tasks, n)
    /\ HasReturned => \A n \in Entities :
          global_node_usage[n] = StepsTargeting(returned.tasks, n)

\* a call has returned an accepted task of two steps or more: the nodes it
\* steps to have been counted, the node it starts from has not
C16_Witness ==
    /\ HasReturned /\ returned.shape = "tuple"
    /\ \E i \in 1..Len(returned.tasks) :
          /\ Len(returned.tasks[i].path) >= 2
          /\ \A k \in 1..Len(returned.tasks[i].path) :
                global_node_usage[returned.tasks[i].path[k].to_id] = 1
          /\ global_node_usage[returned.tasks[i].path[1].from_id] = 0

-----------------------------------------------------------------------------
(* Properties of the normalisation of context values *)

Pad2(n) == IF n < 10 THEN "0" \o ToString(n) ELSE ToString(n)

CleanedDuration ==
    /\ fn_call.fn = "_clean_constraint_value" /\ fn_result.returned
    /\ fn_call.pid = "P2047" /\ fn_call.val.kind = "number"

\* C22: a raw duration of s whole seconds (s >= 0) under P2047 is normalised
\* to the text m:ss, m = s div 60 and ss = s mod 60 padded with a zero to
\* two digits; 125 seconds give "2:05".
C22_DurationAsMinSec ==
    CleanedDuration =>
       LET sec == fn_call.val.x
       IN /\ fn_result.value.x = ToString(sec \div 60) \o ":" \o Pad2(sec % 60)
          /\ sec = 125 => fn_result.value.x = "2:05"
          /\ sec = 0 => fn_result.value.x = "0:00"

\* _clean_constraint_value("P2047", 125 seconds) has returned "2:05"
C22_Witness ==
    /\ CleanedDuration /\ fn_call.val.x = 125
    /\ fn_result.value = [kind |-> "m:ss", x |-> "2:05"]

-----------------------------------------------------------------------------
(* Properties of the schema parsing *)

WellFormed(a) == a.relation # NoRelation /\ a.target # None

\* the relation id of a relation string "reverse_<id>_..." or "<id>"
BareRelationId(rel) == IF rel[1] = "reverse" THEN <<rel[2]>> ELSE <<rel[1]>>

\* the type filter with which the document declares entity type `ent` of
\* the app, none if it declares none
DeclaredFilter(doc, domain, app, ent) ==
    UNION {doc[i].type_filter :
              i \in {j \in 1..Len(doc) : /\ doc[j].domain = domain
                                          /\ doc[j].app = app
                                          /\ doc[j].ent = ent}}

\* entry x of the index is action a of entity entry e
IsActionOf(x, e, a) ==
    /\ x.domain = e.domain /\ x.app = e.app
    /\ x.source_entity_type = e.ent /\ x.action_key = a.key

ParseReturned ==
    fn_call.fn = "_parse_schema_to_actions" /\ fn_result.returned

\* C25: parsing a schema document returns; an action entry without relation
\* or without target is in no list of the index, and every other action
\* of the document is, exactly once, in the list of its bare relation
\* id, with direction reverse when its relation string starts with
\* "reverse_" and forward otherwise, and with the type filter of its target
\* entity type, wherever the document declares it.
C25_MalformedSkippedRestIndexed ==
    ParseReturned =>
       LET doc == fn_call.doc
           idx == fn_result.value.map_data
       IN \A i \in 1..Len(doc) : \A j \in 1..Len(doc[i].actions) :
             LET e == doc[i]
                 a == e.actions[j]
             IN IF WellFormed(a)
                THEN /\ BareRelationId(a.relation) \in DOMAIN idx
                     /\ \A p \in DOMAIN idx :
                           Cardinality({k \in 1..Len(idx[p]) :
                                           IsActionOf(idx[p][k], e, a)})
                             = IF p = BareRelationId(a.relation) THEN 1 ELSE 0
                     /\ \A x \in Range(idx[BareRelationId(a.relation)]) :
                           IsActionOf(x, e, a) =>
                              /\ x.direction =
                                    IF a.relation[1] = "reverse"
                                    THEN "reverse" ELSE "forward"
                              /\ x.target_entity_type = a.target
                              /\ x.allowed_root_types =
                                    DeclaredFilter(doc, e.domain, e.app,
                                                   a.target)
                ELSE \A p \in DOMAIN idx : \A x \in Range(idx[p]) :
                        ~IsActionOf(x, e, a)

\* a document parsed in which a well-formed action follows a malformed one
\* of the same entity and targets an entity type declared further down
C25_Witness ==
    /\ ParseReturned
    /\ \E i \in 1..Len(fn_call.doc) :
          \E j \in 1..Len(fn_call.doc[i].actions) :
             LET e == fn_call.doc[i]
                 a == e.actions[j]
             IN /\ j >= 2 /\ ~WellFormed(e.actions[j - 1])
                /\ WellFormed(a) /\ a.relation[1] = "reverse"
                /\ Len(a.relation) = 3
                /\ \E l \in (i + 1)..Len(fn_call.doc) :
                      /\ fn_call.doc[l].ent = a.target
                      /\ fn_call.doc[l].type_filter # {}
                /\ \E x \in Range(fn_result.value.map_data[<<"P50">>]) :
                      IsActionOf(x, e, a) /\ x.allowed_root_types = {"Q571"}

-----------------------------------------------------------------------------
(* Properties of the paraphrasing *)

\* C24: after a task file has been paraphrased, every task of it carries a
\* refined_query that is a string or null, and the output file holds
\* exactly the tasks of the input whose refined_query is not null.
C24_OutputIsNonNullTasks ==
    para_pc = "returned" =>
       /\ \A i \in 1..Len(para_tasks) : para_tasks[i].kind \in {"str", "null"}
       /\ para_out.written
       /\ Range(para_out.tasks)
             = {i \in 1..Len(para_tasks) : para_tasks[i].kind # "null"}
       /\ Len(para_out.tasks) = Cardinality(Range(para_out.tasks))

-----------------------------------------------------------------------------
(* Properties of the graph file *)

\* an edge without the key networkx gives it
EdgeAttrs(e) ==
    [src |-> e.src, dst |-> e.dst, app |-> e.app, domain |-> e.domain,
     action_key |-> e.action_key, action_desc |-> e.action_desc,
     source_type |-> e.source_type, target_type |-> e.target_type]

Copies(es, e) == Cardinality({i \in 1..Len(es) : EdgeAttrs(es[i]) = EdgeAttrs(e)})

\* C23: the graph load_graph returns from the file save_graph wrote has the
\* nodes of the saved graph, with their labels, and every edge of it, with
\* its attributes, as many times as the saved graph has it.
C23_SaveLoadRoundTrip ==
    pc = "loaded" =>
       /\ Range(loaded_graph.nodes) = Range(nodes)
       /\ Len(loaded_graph.nodes) = Len(nodes)
       /\ Len(loaded_graph.edges) = Len(edges)
       /\ \A i \in 1..Len(edges) :
             Copies(loaded_graph.edges, edges[i]) = Copies(edges, edges[i])

\* a graph with two edges of different actions between the same pair of
\* nodes has been saved and loaded
C23_Witness ==
    /\ pc = "loaded"
    /\ \E i, j \in 1..Len(edges) :
          /\ i # j /\ edges[i].src = edges[j].src /\ edges[i].dst = edges[j].dst
          /\ edges[i].action_key # edges[j].action_key
    /\ Len(loaded_graph.edges) >= 2 /\ Len(loaded_graph.nodes) >= 2

-----------------------------------------------------------------------------
(* Properties of the walk *)

\* the keys of the edges that leave curr for a node outside the path
CandidateEdges(G, curr, local_visited) ==
    SelectSeq([i \in 1..Len(G.edges) |-> i],
              LAMBDA i : /\ G.edges[i].src = curr
                         /\ G.edges[i].dst \notin local_visited)

\* the score of an edge after the steps made so far
EdgeScore(edge, steps) ==
    1 + (IF steps # <<>> /\ edge.app # steps[Len(steps)].app
         THEN 2 ELSE 0)
      + (IF steps # <<>> /\ AppDomain[edge.app] # AppDomain[steps[Len(steps)].app]
         THEN 4 ELSE 0)

RECURSIVE SumScores(_, _, _, _)
SumScores(G, keys, steps, n) ==
    IF n = 0 THEN 0
    ELSE SumScores(G, keys, steps, n - 1) + EdgeScore(G.edges[keys[n]], steps)

\* one uniform draw u = s1 / RngModulus in [0, 1) scaled to the total score:
\* the edge at which the cumulative score passes u * total; [rng, x]
WeightedDraw(G, s, keys, steps) ==
    LET s1 == RngNext(s)
        total == SumScores(G, keys, steps, Len(keys))
        pos == CHOOSE i \in 1..Len(keys) :
                 /\ SumScores(G, keys, steps, i) * RngModulus > s1 * total
                 /\ \A j \in 1..(i - 1) :
                       SumScores(G, keys, steps, j) * RngModulus <= s1 * total
    IN [rng |-> s1, x |-> keys[pos]]

\* the steps of a walk whose every edge is selected by the weighted draw
RECURSIVE WeightedWalk(_, _, _, _, _, _)
WeightedWalk(G, s, curr, local_visited, steps, left) ==
    IF left = 0 THEN steps
    ELSE LET keys == CandidateEdges(G, curr, local_visited)
         IN IF keys = <<>> THEN steps
            ELSE LET key == WeightedDraw(G, s, keys, steps)
                     n == G.edges[key.x].dst
                 IN IF ~IsValidNodeLabel(GLabel(G, n)) THEN steps
                    ELSE WeightedWalk(G, key.rng, n, local_visited \cup {n},
                                      Append(steps,
                                             MakeStep(G, steps, curr, n,
                                                      G.edges[key.x])),
                                      left - 1)

\* the walks the next iteration of the sampling loop can make
NextWalks ==
    IF g_pc = "sampling" /\ Len(tasks) < gen.total_paths
                         /\ ~BudgetExhausted(attempts, gen.total_paths)
    THEN UNION {
           UNION {Walks(gen.G, start_node, {start_node}, <<>>, target_len)
                    : target_len \in RandInt(gen.min_len, gen.max_len)}
           : start_node \in {n \in StartPool(gen.G, global_node_usage) :
                               IsValidNodeLabel(GLabel(gen.G, n))}}
    ELSE {}

\* the walk w has stopped at a node with no successor outside the path
EndsAtDeadEnd(G, w) ==
    /\ w.steps # <<>>
    /\ ValidNeighbors(G, w.steps[Len(w.steps)].to_id,
                      {w.steps[1].from_id}
                        \cup {w.steps[k].to_id : k \in 1..Len(w.steps)}) = {}

\* C18: a walk that ends because the current node has no successor outside
\* the path is accepted as a candidate when it has at least min_len steps
\* and uses at least 2 distinct apps.
C18_DeadEndWalkAccepted ==
    \A w \in NextWalks :
       (/\ EndsAtDeadEnd(gen.G, w)
        /\ Len(w.steps) >= gen.min_len
        /\ Cardinality(AppsUsed(w.steps)) >= 2) => AcceptsWalk(w, gen.min_len)

DraftsCandidate ==
    g_pc = "sampling" /\ attempts' = attempts + 1 /\ Len(tasks') = Len(tasks) + 1

\* C17: at each walk step the next edge is selected by a weighted draw over
\* the candidate edges (1 each, 2 more for an app other than the previous
\* step's, 4 more for a domain other than the previous step's), the chosen
\* edge being the one at which the cumulative score passes a uniform draw
\* scaled to the total score: the steps of every drafted candidate are those
\* of the weighted walk made with the generator's draws.
C17_WeightedDraw ==
    [][DraftsCandidate =>
         LET start == Choice(g_rng, StartList(gen.G, global_node_usage))
             target_len == RandIntDraw(start.rng, gen.min_len, gen.max_len)
         IN tasks'[Len(tasks')].path =
              WeightedWalk(gen.G, target_len.rng, start.x, {start.x}, <<>>,
                           target_len.x)]_vars

-----------------------------------------------------------------------------
(* Properties of repeated runs of generate_tasks *)

SecondRunReturned == g_pc = "returned" /\ g_runs >= 1

\* C11: for a fixed seed, a fixed input graph and the same context service,
\* a run of generate_tasks returns the same sequence of accepted tasks as the
\* run before it.
C11_SameTasksEveryRun ==
    SecondRunReturned =>
        /\ returned.shape = last_tasks.shape
        /\ Len(returned.tasks) = Len(last_tasks.tasks)
        /\ \A i \in 1..Len(returned.tasks) :
              TaskText(returned.tasks[i]) = TaskText(last_tasks.tasks[i])

\* the context of an entity when its fetches are joined in the order o
RECURSIVE MergedIn(_, _)
MergedIn(o, k) ==
    IF k = 0 THEN <<>>
    ELSE DictUpdate(MergedIn(o, k - 1),
                    FetchNodeData(ctx_service, o[k][1], o[k][2]))

\* the orders in which the context fetches of entity e can complete
JoinOrders(e) ==
    LET J == {j \in QueryJobs(tasks) : j[1] = e}
    IN {o \in [1..Cardinality(J) -> J] :
           \A a, b \in 1..Cardinality(J) : o[a] = o[b] => a = b}

\* C37: the context and the description of every step of a validated
\* candidate are those of every order in which the context fetches of the
\* step's target can complete, also when the target was fetched under two
\* (app, target type) keys.
C37_JoinOrderIrrelevant ==
    g_pc \in {"validating", "returned"} =>
       \A i \in 1..v_idx : \A k \in 1..Len(tasks[i].path) :
          LET step == tasks[i].path[k]
          IN step.description # NoDescription =>
                \A o \in JoinOrders(step.to_id) :
                   /\ step.context = MergedIn(o, Len(o))
                   /\ step.description
                         = Description(step, MergedIn(o, Len(o)))

-----------------------------------------------------------------------------
(* Properties of the crawl loop *)

Crawling == pc \in {"loop", "join", "merge"}

\* a step of a pool thread: a running fetch finishes
WorkerStep == running' # running /\ running' \subseteq running

\* C21: a step of a fetch worker changes neither the graph, the frontier,
\* the visited set nor the crawl's generator.  Within a crawl the graph and
\* the visited set change only in the merge of a joined result (its fetch
\* neither running nor waiting to be joined), the frontier only there and
\* in the pop of a batch, the generator only in the join of a completed
\* fetch; the coordinating thread does one of these at a time.
C21_OnlyCoordinatorMutates ==
    [][/\ WorkerStep =>
             UNCHANGED <<nodes, edges, queue, visited_or_queued, rng, pc,
                         original_id, neighbors, count>>
       /\ (Crawling /\ <<nodes, edges, visited_or_queued>>
                          # <<nodes', edges', visited_or_queued'>>) =>
             /\ pc = "merge"
             /\ original_id \in Entities \ (running \cup completed)
             /\ fetched[original_id] > 0
             /\ UNCHANGED <<running, completed, rng>>
       /\ (Crawling /\ queue' # queue) =>
             /\ pc \in {"merge", "loop"}
             /\ UNCHANGED <<completed, rng>>
       /\ (Crawling /\ rng' # rng) =>
             /\ pc = "join"
             /\ \E e \in completed : completed' = completed \ {e}
             /\ UNCHANGED <<nodes, edges, queue, visited_or_queued, running>>
      ]_vars

\* a fetch of the batch is still running on its worker while the
\* coordinating thread is in the middle of merging a joined result of the
\* same batch into the graph
C21_Witness ==
    /\ pc = "merge" /\ neighbors # <<>> /\ count >= 1
    /\ running # {} /\ original_id \notin running
    /\ Len(edges) >= 2

\* the coordinating thread takes the next pair of the shuffled list, one of
\* the first max_branch
TakesPair ==
    /\ pc = "merge" /\ neighbors # <<>> /\ count < max_branch
    /\ neighbors' # neighbors

\* the edge of the pair n of the entity being merged
EdgeOfPair(n) ==
    [src |-> original_id, dst |-> n.neighbor_id,
     app |-> n.action_metadata.app,
     domain |-> n.action_metadata.domain,
     action_key |-> n.action_metadata.action_key,
     action_desc |-> n.action_metadata.action_desc,
     source_type |-> n.action_metadata.source_entity_type,
     target_type |-> n.action_metadata.target_entity_type]

\* the pair n names an unseen neighbor and the node budget is used up
BudgetPrevents(n) ==
    n.neighbor_id \notin visited_or_queued /\ Len(nodes) >= max_nodes

\* C26: for every kept pair of an expanded entity a new edge from the entity
\* to the neighbor with the action's metadata is added, whether or not the
\* neighbor is new, also when the node budget prevented adding the
\* neighbor as a node.
C26_EdgeForEveryKeptPair ==
    [][TakesPair => edges' = Append(edges, EdgeOfPair(Head(neighbors)))]_vars

\* C26, amended: the edge is added for every pair taken, whether or not
\* the neighbor is new and whether or not the pair of nodes has an edge
\* already, unless the neighbor is unseen and the node budget is used up:
\* then neither a node nor an edge is added and the rest of the entity's
\* pairs is dropped.
C26_EdgeUnlessBudgetPrevents ==
    [][TakesPair =>
         IF BudgetPrevents(Head(neighbors))
         THEN /\ UNCHANGED <<nodes, edges, queue, visited_or_queued>>
              /\ neighbors' = <<>>
         ELSE /\ edges' = Append(edges, EdgeOfPair(Head(neighbors)))
              /\ neighbors' = Tail(neighbors)]_vars

\* the entity being merged has got an edge to the seed, a neighbor that was
\* not new, and its next pair names an unseen neighbor while the node
\* budget is used up
C26_Witness ==
    /\ pc = "merge" /\ neighbors # <<>> /\ count < max_branch
    /\ BudgetPrevents(Head(neighbors))
    /\ count >= 1
    /\ \E i \in 1..Len(edges) :
          edges[i].src = original_id /\ edges[i].dst = world.start

\* C27: the accepted pairs of an expanded entity are shuffled with the
\* crawl's seeded generator, and at most max_branch of them are merged: from
\* the join of an entity's result, where the count starts at 0, every step
\* that adds to the graph adds one edge and at most one node and counts one
\* pair, and none is taken once max_branch are counted, so one expansion
\* adds at most max_branch edges and at most max_branch nodes.
C27_BranchCap ==
    [][/\ (pc = "join" /\ pc' = "merge") =>
            \E e \in completed :
               LET sh == Shuffle(rng, FetchNodeNeighbors(world, e))
               IN /\ original_id' = e /\ count' = 0
                  /\ neighbors' = sh.list /\ rng' = sh.rng
                  /\ UNCHANGED <<nodes, edges>>
       /\ (Crawling /\ <<nodes, edges>> # <<nodes', edges'>>) =>
            /\ pc = "merge" /\ pc' = "merge"
            /\ count < max_branch /\ count' = count + 1
            /\ original_id' = original_id
            /\ Len(edges') = Len(edges) + 1
            /\ edges'[Len(edges')].src = original_id
            /\ Len(nodes') <= Len(nodes) + 1
       /\ (pc = "merge" /\ pc' = "merge") =>
            /\ count' \in {count, count + 1}
            /\ count' <= max_branch
            /\ rng' = rng]_vars

\* max_branch pairs of an entity were merged, two of them at least, pairs of
\* its list are left over, and they are not the end of the list in the
\* order the fetch returned it
C27_Witness ==
    /\ pc = "merge" /\ count = max_branch /\ max_branch >= 2
    /\ neighbors # <<>>
    /\ LET found == FetchNodeNeighbors(world, original_id)
       IN neighbors # SubSeq(found, Len(found) - Len(neighbors) + 1,
                             Len(found))

\* C28: an iteration of the crawl pops min(|frontier|, 2 x workers)
\* entities from the front of the frontier and dispatches exactly one fetch
\* for each of them; fetches are dispatched at no other point, and at a
\* pop every result of the batch before has been joined and merged, so no
\* result of a later batch is merged before the current batch is done.
C28_BatchPopAndJoin ==
    [][/\ (pc = "loop" /\ pc' = "join") =>
            LET k == IF Len(queue) < 2 * max_workers
                     THEN Len(queue) ELSE 2 * max_workers
            IN /\ queue' = SubSeq(queue, k + 1, Len(queue))
               /\ running' = {queue[i] : i \in 1..k}
               /\ Cardinality(running') = k
               /\ \A e \in Entities :
                     fetched'[e] = fetched[e] + (IF e \in running' THEN 1 ELSE 0)
               /\ running = {} /\ completed = {} /\ neighbors = <<>>
               /\ completed' = {}
       /\ (Crawling /\ fetched' # fetched) => (pc = "loop" /\ pc' = "join")
       /\ (Crawling /\ running' # running /\ pc # "loop") =>
            \E e \in running : running' = running \ {e}
                                 /\ completed' = completed \cup {e}
       /\ (pc = "join" /\ pc' = "merge") =>
            original_id' \in completed /\ fetched[original_id'] > 0]_vars

\* a full batch was popped and none of its fetches is joined yet, while the
\* frontier still holds an entity
C28_Witness ==
    /\ pc = "join" /\ completed = {}
    /\ Cardinality(running) = 2 * max_workers
    /\ queue # <<>>
    /\ \A e \in running : fetched[e] = 1

\* the ids in the order they were enqueued: a node is added when, and only
\* when, its id is enqueued
Enqueued == [i \in 1..Len(nodes) |-> nodes[i].id]

\* the ids popped so far in this call
Popped == {e \in Entities : fetched[e] > 0}

\* each query of e finds no rows or fails until the retries are used up
Silent(w, e) ==
    \A d \in Directions :
        w.rows[e][d] = <<>> \/ w.fails[e][d] >= StopAfterAttempt

\* the service in which e has no neighbors and its queries do not fail
Silenced(w, e) ==
    [w EXCEPT !.rows[e] = [d \in Directions |-> <<>>],
              !.fails[e] = [d \in Directions |-> 0]]

\* C14: when the fetch of an entity returns no data (no rows, or the retries
\* used up), joining it adds no node and no edge and leaves frontier and
\* generator alone, the entity is the source of no edge, the join loop goes on
\* with the rest of the batch, and every other entity's fetch returns what it
\* returns when the entity legitimately has no neighbors.
C14_EmptyFetchIsSkipped ==
    [][\A e \in Entities :
          Silent(world, e) =>
              /\ FetchNodeNeighbors(world, e) = <<>>
              /\ \A i \in 1..Len(edges) : edges[i].src # e
              /\ \A o \in Entities \ {e} :
                    FetchNodeNeighbors(world, o)
                        = FetchNodeNeighbors(Silenced(world, e), o)
              /\ (pc = "join" /\ e \in completed
                                /\ completed' = completed \ {e}) =>
                    /\ UNCHANGED <<nodes, edges, queue, visited_or_queued, rng>>
                    /\ pc' = "join"]_vars

\* an entity whose queries all failed three times was joined, and another
\* entity popped with it is being merged
C14_Witness ==
    /\ pc = "merge"
    /\ \E e \in Entities \ {original_id} :
          /\ Silent(world, e)
          /\ \A d \in Directions : world.rows[e][d] # <<>>
          /\ fetched[e] = 1 /\ e \notin (running \cup completed)
          /\ fetched[original_id] = 1
          /\ {original_id, e} \cap Range(SubSeq(Enqueued, 1, 1)) = {}

\* C13: the frontier starts as the seed, queued and marked visited; every id
\* is enqueued at most once and popped at most once, is not enqueued again
\* after it was popped, and the ids are popped in the order they were
\* enqueued: the popped ids are a prefix of the enqueued ones and the frontier
\* is the rest, in the same order.
C13_FifoFrontier ==
    pc # "idle" =>
        /\ Enqueued # <<>> /\ Enqueued[1] = world.start
        /\ Distinct(Enqueued)
        /\ Range(Enqueued) = visited_or_queued
        /\ \A e \in Entities : fetched[e] <= 1
        /\ Popped = Range(SubSeq(Enqueued, 1, Cardinality(Popped)))
        /\ queue = SubSeq(Enqueued, Cardinality(Popped) + 1, Len(Enqueued))

\* an id popped in an earlier batch is met again as a neighbor of another
\* entity while the frontier holds other ids
C13_Witness ==
    /\ pc = "merge" /\ neighbors # <<>> /\ count < max_branch
    /\ fetched[Head(neighbors).neighbor_id] = 1
    /\ Head(neighbors).neighbor_id # original_id
    /\ Head(neighbors).neighbor_id \notin Range(queue)
    /\ queue # <<>>

\* C12: once the node count equals max_nodes the graph is not modified any
\* further, no node and no edge being added while the rest of the batch is
\* joined; and with an empty frontier the loop test ends the crawl.
C12_StopsAtBudget ==
    [][/\ (Crawling /\ Len(nodes) = max_nodes) =>
             (nodes' = nodes /\ edges' = edges)
       /\ (pc = "loop" /\ queue = <<>>) => pc' = "returned"]_vars

====
